---------------------------- MODULE Spec2Model ----------------------------
(***************************************************************************)
(* A model of the real-time data pipeline: the streaming job               *)
(* (dataflow-pipeline/streaming_pipeline.py) and the table manager         *)
(* (cloud-functions/table-manager).                                        *)
(*                                                                         *)
(* Text is a sequence of one-character strings, so that parsing and        *)
(* formatting of timestamps are computed digit by digit.  A JSON value is  *)
(* a record [t, v]: its type tag and its text.  A Python dict is a         *)
(* function from its keys to JSON values.                                  *)
(***************************************************************************)
EXTENDS Integers, Sequences, FiniteSets, TLC

(***************************************************************************)
(* Text helpers                                                            *)
(***************************************************************************)
DigitChars == <<"0", "1", "2", "3", "4", "5", "6", "7", "8", "9">>

IsDigit(c) == \E i \in 1..10 : DigitChars[i] = c

DigitVal(c) == (CHOOSE i \in 1..10 : DigitChars[i] = c) - 1

AllDigits(s) == \A i \in 1..Len(s) : IsDigit(s[i])

RECURSIVE ToInt(_)
ToInt(s) == IF Len(s) = 0 THEN 0
            ELSE 10 * ToInt(SubSeq(s, 1, Len(s) - 1)) + DigitVal(s[Len(s)])

RECURSIVE Decimal(_)
\* str(n) for n >= 0
Decimal(n) == IF n < 10 THEN <<DigitChars[n + 1]>>
              ELSE Decimal(n \div 10) \o <<DigitChars[(n % 10) + 1]>>

RECURSIVE Zeros(_)
Zeros(k) == IF k <= 0 THEN <<>> ELSE <<"0">> \o Zeros(k - 1)

\* format(n, "0<w>d"): at least w digits, zero-padded on the left
Pad(n, w) == Zeros(w - Len(Decimal(n))) \o Decimal(n)

RECURSIVE ReplaceZ(_)
\* s.replace('Z', '+00:00'): every "Z" of the text is replaced
ReplaceZ(s) == IF Len(s) = 0 THEN <<>>
               ELSE (IF Head(s) = "Z" THEN <<"+", "0", "0", ":", "0", "0">>
                                      ELSE <<Head(s)>>) \o ReplaceZ(Tail(s))

(***************************************************************************)
(* datetime                                                                *)
(***************************************************************************)
IsLeap(y) == (y % 4 = 0 /\ y % 100 # 0) \/ y % 400 = 0

DaysInMonth(y, m) == IF m = 2 THEN (IF IsLeap(y) THEN 29 ELSE 28)
                     ELSE IF m \in {4, 6, 9, 11} THEN 30 ELSE 31

DateTime(y, mo, d, h, mi, s, us) ==
    [year |-> y, month |-> mo, day |-> d, hour |-> h, minute |-> mi,
     second |-> s, microsecond |-> us]

ParseError == [error |-> "ValueError"]

IsParsed(r) == "year" \in DOMAIN r

\* The date part of datetime.fromisoformat: YYYY-MM-DD with a valid date.
DateOk(s) ==
    /\ Len(s) >= 10
    /\ AllDigits(SubSeq(s, 1, 4)) /\ s[5] = "-"
    /\ AllDigits(SubSeq(s, 6, 7)) /\ s[8] = "-"
    /\ AllDigits(SubSeq(s, 9, 10))
    /\ ToInt(SubSeq(s, 1, 4)) >= 1
    /\ ToInt(SubSeq(s, 6, 7)) \in 1..12
    /\ ToInt(SubSeq(s, 9, 10)) \in
          1..DaysInMonth(ToInt(SubSeq(s, 1, 4)), ToInt(SubSeq(s, 6, 7)))

\* The position of the UTC offset's sign in a time text, 0 when it has none.
OffsetPos(t) == IF \E i \in 1..Len(t) : t[i] \in {"+", "-"}
                THEN CHOOSE i \in 1..Len(t) :
                        /\ t[i] \in {"+", "-"}
                        /\ \A j \in 1..(i - 1) : t[j] \notin {"+", "-"}
                ELSE 0

ClockText(t) == IF OffsetPos(t) = 0 THEN t ELSE SubSeq(t, 1, OffsetPos(t) - 1)

OffsetText(t) == IF OffsetPos(t) = 0 THEN <<>> ELSE SubSeq(t, OffsetPos(t), Len(t))

\* HH[:MM[:SS[.fff[fff]]]]; the lenient parser takes a fraction of any length
ClockOk(c, parser) ==
    /\ \/ Len(c) \in {2, 5, 8, 12, 15}
       \/ parser = "lenient" /\ Len(c) >= 10
    /\ AllDigits(SubSeq(c, 1, 2)) /\ ToInt(SubSeq(c, 1, 2)) \in 0..23
    /\ Len(c) >= 5 =>
          /\ c[3] = ":" /\ AllDigits(SubSeq(c, 4, 5))
          /\ ToInt(SubSeq(c, 4, 5)) \in 0..59
    /\ Len(c) >= 8 =>
          /\ c[6] = ":" /\ AllDigits(SubSeq(c, 7, 8))
          /\ ToInt(SubSeq(c, 7, 8)) \in 0..59
    /\ Len(c) >= 10 => c[9] = "." /\ AllDigits(SubSeq(c, 10, Len(c)))

\* +HH:MM or -HH:MM
OffsetOk(o) ==
    \/ Len(o) = 0
    \/ /\ Len(o) = 6
       /\ o[1] \in {"+", "-"}
       /\ AllDigits(SubSeq(o, 2, 3)) /\ o[4] = ":" /\ AllDigits(SubSeq(o, 5, 6))
       /\ ToInt(SubSeq(o, 2, 3)) \in 0..23
       /\ ToInt(SubSeq(o, 5, 6)) \in 0..59

ClockField(c, from, to) == IF Len(c) >= to THEN ToInt(SubSeq(c, from, to)) ELSE 0

\* the fraction's first six digits, read as microseconds
Micros(c) == IF Len(c) < 10 THEN 0
             ELSE ToInt(SubSeq(SubSeq(c, 10, Len(c)) \o Zeros(6), 1, 6))

\* datetime.fromisoformat(s): the datetime's own fields (an offset is kept
\* as tzinfo and does not shift them), or ValueError.  parser: "strict" is
\* the parser up to Python 3.10, "lenient" the one from 3.11 on, here for
\* the texts of the form YYYY-MM-DD[*HH[:MM[:SS[.f...]]][+HH:MM]].
FromIsoFormat(s, parser) ==
    IF ~DateOk(s) THEN ParseError
    ELSE IF Len(s) = 10
         THEN DateTime(ToInt(SubSeq(s, 1, 4)), ToInt(SubSeq(s, 6, 7)),
                       ToInt(SubSeq(s, 9, 10)), 0, 0, 0, 0)
    ELSE IF Len(s) = 11 THEN ParseError
    ELSE LET t == SubSeq(s, 12, Len(s))
             c == ClockText(t)
         IN  IF ClockOk(c, parser) /\ OffsetOk(OffsetText(t))
             THEN DateTime(ToInt(SubSeq(s, 1, 4)), ToInt(SubSeq(s, 6, 7)),
                           ToInt(SubSeq(s, 9, 10)), ClockField(c, 1, 2),
                           ClockField(c, 4, 5), ClockField(c, 7, 8), Micros(c))
             ELSE ParseError

\* date.isoformat()
DateIsoFormat(dt) ==
    Pad(dt.year, 4) \o <<"-">> \o Pad(dt.month, 2) \o <<"-">> \o Pad(dt.day, 2)

\* datetime.isoformat() of a naive datetime: the fraction is printed only
\* when the microsecond is not 0.
IsoFormat(dt) ==
    DateIsoFormat(dt) \o <<"T">> \o Pad(dt.hour, 2) \o <<":">>
        \o Pad(dt.minute, 2) \o <<":">> \o Pad(dt.second, 2)
        \o (IF dt.microsecond = 0 THEN <<>> ELSE <<".">> \o Pad(dt.microsecond, 6))


(***************************************************************************)
(* JSON values and the texts the code compares with                        *)
(***************************************************************************)
S_order == <<"o", "r", "d", "e", "r">>
S_inventory == <<"i", "n", "v", "e", "n", "t", "o", "r", "y">>
S_user_activity == <<"u", "s", "e", "r", "_", "a", "c", "t", "i", "v", "i", "t", "y">>
S_orders == <<"o", "r", "d", "e", "r", "s">>
S_refund == <<"r", "e", "f", "u", "n", "d">>
S_output == <<"o", "u", "t", "p", "u", "t">>
S_json == <<".", "j", "s", "o", "n">>

Str(s) == [t |-> "str", v |-> s]
Num(s) == [t |-> "num", v |-> s]
List(s) == [t |-> "list", v |-> s]
\* Python None: a JSON null, and what dict.get gives for a missing key
None == [t |-> "null", v |-> <<>>]

\* bool(x): None, "", 0 and [] are false
Truthy(x) == CASE x.t = "null" -> FALSE
               [] x.t = "str" -> Len(x.v) > 0
               [] x.t = "num" -> x.v # <<"0">>
               [] x.t = "list" -> x.v # <<"[", "]">>

\* hash(x) is defined: a list (or a dict) is not hashable
Hashable(x) == x.t # "list"

\* str(x), as an f-string prints it
PyStr(x) == IF x.t = "null" THEN <<"N", "o", "n", "e">> ELSE x.v

\* d.get(k)
Get(d, k) == IF k \in DOMAIN d THEN d[k] ELSE None

\* d[k] = x
Put(d, k, x) == [j \in DOMAIN d \cup {k} |-> IF j = k THEN x ELSE d[j]]

\* {j: v for j, v in d.items() if j != k}
Without(d, k) == [j \in DOMAIN d \ {k} |-> d[j]]

EmptyDict == [j \in {} |-> None]

(***************************************************************************)
(* The messages on the bus (bounded sample of the inputs)                  *)
(***************************************************************************)
OrderFields == {"event_type", "order_id", "customer_id", "order_date", "status",
                "items", "shipping_address", "total_amount"}
InventoryFields == {"event_type", "inventory_id", "product_id", "warehouse_id",
                    "quantity_change", "reason", "timestamp"}
UserActivityFields == {"event_type", "user_id", "activity_type", "ip_address",
                       "user_agent", "timestamp", "metadata"}

\* 2024-03-05T14:07:22.451Z
TsMillis == <<"2", "0", "2", "4", "-", "0", "3", "-", "0", "5", "T", "1", "4", ":", "0", "7", ":", "2", "2", ".", "4", "5", "1", "Z">>
\* 2024-03-05T23:59:59.999999Z, as the generator prints a timestamp
TsMicros == IsoFormat(DateTime(2024, 3, 5, 23, 59, 59, 999999)) \o <<"Z">>
\* 2023-12-31T23:30:00-05:00: the next day in UTC
TsOffset == <<"2", "0", "2", "3", "-", "1", "2", "-", "3", "1", "T", "2", "3", ":", "3", "0", ":", "0", "0", "-", "0", "5", ":", "0", "0">>
\* 2024-02-30T10:00:00Z: no such day
TsNoSuchDay == <<"2", "0", "2", "4", "-", "0", "2", "-", "3", "0", "T", "1", "0", ":", "0", "0", ":", "0", "0", "Z">>
\* 2024-03-05T14:07:22.45Z: a fraction only the lenient parser reads
TsShortFraction == <<"2", "0", "2", "4", "-", "0", "3", "-", "0", "5", "T", "1", "4", ":", "0", "7", ":", "2", "2", ".", "4", "5", "Z">>
\* 0999-03-05T14:07:22.451Z: a year of fewer than four digits
TsEarlyYear == <<"0", "9", "9", "9", "-", "0", "3", "-", "0", "5", "T", "1", "4", ":", "0", "7", ":", "2", "2", ".", "4", "5", "1", "Z">>
\* 2024-03-05T14:07:22.451999Z: the millisecond of TsMillis, later in it
TsSameMilli == <<"2", "0", "2", "4", "-", "0", "3", "-", "0", "5", "T", "1", "4", ":", "0", "7", ":", "2", "2", ".", "4", "5", "1", "9", "9", "9", "Z">>
\* 2024-03-05T14:07:22.452Z: the next millisecond
TsNextMilli == <<"2", "0", "2", "4", "-", "0", "3", "-", "0", "5", "T", "1", "4", ":", "0", "7", ":", "2", "2", ".", "4", "5", "2", "Z">>
\* 2024-03-05T14:08:22.451Z: the next minute
TsNextMinute == <<"2", "0", "2", "4", "-", "0", "3", "-", "0", "5", "T", "1", "4", ":", "0", "8", ":", "2", "2", ".", "4", "5", "1", "Z">>
\* 2024-03-05T14:07:22Z and 2024-03-05T14:07:22.000Z: the same instant
TsNoFraction == <<"2", "0", "2", "4", "-", "0", "3", "-", "0", "5", "T", "1", "4", ":", "0", "7", ":", "2", "2", "Z">>
TsZeroFraction == <<"2", "0", "2", "4", "-", "0", "3", "-", "0", "5", "T", "1", "4", ":", "0", "7", ":", "2", "2", ".", "0", "0", "0", "Z">>
\* 2024-03-05T14:07:22.451+05:00: five hours before TsMillis
TsEast == <<"2", "0", "2", "4", "-", "0", "3", "-", "0", "5", "T", "1", "4", ":", "0", "7", ":", "2", "2", ".", "4", "5", "1", "+", "0", "5", ":", "0", "0">>
\* 05/03/2024 14:07
TsSlashes == <<"0", "5", "/", "0", "3", "/", "2", "0", "2", "4", " ", "1", "4", ":", "0", "7">>

AnyValue == Str(<<"v">>)

Payload(fields, etype) ==
    [k \in fields |-> IF k = "event_type" THEN Str(etype) ELSE AnyValue]

OrderPayload(ts) == Put(Payload(OrderFields, S_order), "order_date", ts)
InventoryPayload(ts) == Put(Payload(InventoryFields, S_inventory), "timestamp", ts)
UserActivityPayload(ts) ==
    Put(Payload(UserActivityFields, S_user_activity), "timestamp", ts)

Object(d) == [kind |-> "object", body |-> d]

ValidObjects ==
    {Object(OrderPayload(Str(ts))) : ts \in {TsMillis, TsMicros, TsOffset}}
    \cup {Object(InventoryPayload(Str(ts))) : ts \in {TsMillis, TsMicros}}
    \cup {Object(UserActivityPayload(Str(TsMillis)))}

\* whether the designated timestamp parses depends on the Python version
VersionDependentObjects == {Object(InventoryPayload(Str(TsShortFraction)))}

\* a valid timestamp of a year before 1000
EarlyYearObjects == {Object(InventoryPayload(Str(TsEarlyYear)))}

\* the designated timestamp field is missing, null or empty
NoTimestampObjects ==
    {Object(Without(OrderPayload(None), "order_date")),
     Object(OrderPayload(Str(<<>>))),
     Object(Without(InventoryPayload(None), "timestamp")),
     Object(UserActivityPayload(None))}

\* the designated timestamp field is there and cannot be parsed
BadTimestampObjects ==
    {Object(OrderPayload(Str(TsNoSuchDay))),
     Object(OrderPayload(Num(<<"1", "7">>))),
     Object(InventoryPayload(Str(TsSlashes))),
     Object(UserActivityPayload(List(<<"[", "1", "]">>)))}

\* no event_type, or a false one
NoCategoryObjects ==
    {Object(Without(OrderPayload(Str(TsMillis)), "event_type")),
     Object(Put(InventoryPayload(Str(TsMillis)), "event_type", None)),
     Object(Put(UserActivityPayload(Str(TsSlashes)), "event_type", Str(<<>>)))}

\* an event_type outside the three categories
UnknownCategoryObjects ==
    {Object(Put(InventoryPayload(Str(TsMillis)), "event_type", Str(S_refund))),
     Object(Put(InventoryPayload(Str(TsSlashes)), "event_type", Str(S_orders))),
     Object(Put(OrderPayload(Str(TsMicros)), "event_type",
                List(<<"[", "'", "x", "'", "]">>)))}

\* the source itself supplies the two processing fields
SuppliedFieldsObjects ==
    {Object(Put(Put(OrderPayload(Str(TsMillis)), "event_date", Str(TsSlashes)),
                "processed_timestamp", AnyValue))}

\* the source itself supplies a key _table_name, naming another table
SuppliedTableNameObjects ==
    {Object(Put(OrderPayload(Str(TsMillis)), "_table_name", Str(S_inventory)))}

\* payloads that do not have the shape of their category: fields missing,
\* a field of another type, a field the category does not have
OddShapeObjects ==
    {Object(Put(Put(EmptyDict, "event_type", Str(S_order)), "order_date",
                Str(TsMillis))),
     Object(Put(Put(InventoryPayload(Str(TsMicros)), "quantity_change",
                    List(<<"[", "1", "]">>)), "extra", None))}

\* the timestamps two events are compared on
PathTimestamps == {TsMillis, TsSameMilli, TsNextMilli, TsNextMinute,
                   TsNoFraction, TsZeroFraction, TsEast}

\* valid events of the three categories with these timestamps
PathMessages ==
    {m : m \in {Object(OrderPayload(Str(ts))) : ts \in PathTimestamps}
              \cup {Object(InventoryPayload(Str(ts))) : ts \in PathTimestamps}
              \cup {Object(UserActivityPayload(Str(ts))) : ts \in PathTimestamps}}

Unparseable ==
    {[kind |-> "undecodable", body |-> EmptyDict],
     [kind |-> "invalid_json", body |-> EmptyDict],
     [kind |-> "non_object", body |-> EmptyDict]}

RawMessages ==
    {m : m \in ValidObjects \cup NoTimestampObjects \cup BadTimestampObjects
                \cup NoCategoryObjects \cup UnknownCategoryObjects
                \cup SuppliedFieldsObjects \cup VersionDependentObjects
                \cup EarlyYearObjects \cup SuppliedTableNameObjects
                \cup OddShapeObjects \cup Unparseable}

\* the readings datetime.utcnow() may give, in the order of time
ClockValues ==
    <<DateTime(2024, 3, 5, 23, 59, 59, 999999),
      DateTime(2024, 3, 6, 0, 0, 0, 0),
      DateTime(2024, 3, 6, 0, 0, 7, 451000)>>

(***************************************************************************)
(* streaming_pipeline.py: the three DoFns                                  *)
(***************************************************************************)
NoException == "none"

\* json.loads(element.decode('utf-8')): the exception it raises, if any
JsonLoadsException(element) ==
    CASE element.kind = "undecodable" -> "UnicodeDecodeError"
      [] element.kind = "invalid_json" -> "JSONDecodeError"
      [] OTHER -> NoException

\* fromisoformat(x.replace('Z', '+00:00')) of a JSON value x: a value that is
\* no text has no replace method
ParseTimestamp(x, parser) ==
    IF x.t # "str" THEN [error |-> "AttributeError"]
    ELSE FromIsoFormat(ReplaceZ(x.v), parser)

\* The timestamp field the enricher reads for a category, "" for none.
DesignatedField(event_type) ==
    IF event_type = Str(S_order) THEN "order_date"
    ELSE IF event_type \in {Str(S_inventory), Str(S_user_activity)} THEN "timestamp"
    ELSE ""

\* Lines 46-61 with the fallback reading the clock once more, later
EventDateSourceSecondReading(event_type, event_data, now, parser) ==
    IF DesignatedField(event_type) = "" THEN now
    ELSE IF Truthy(Get(event_data, DesignatedField(event_type)))
         THEN ParseTimestamp(Get(event_data, DesignatedField(event_type)), parser)
         ELSE ClockValues[Len(ClockValues)]

\* Lines 46-61: the datetime whose date becomes event_date.
EventDateSource(event_type, event_data, now, parser) ==
    IF DesignatedField(event_type) = "" THEN now
    ELSE IF Truthy(Get(event_data, DesignatedField(event_type)))
         THEN ParseTimestamp(Get(event_data, DesignatedField(event_type)), parser)
         ELSE now

\* The body of EventProcessor.process inside its try: the exception that
\* leaves it, what it logs, and the tuples it yields.
EventProcessorBody(element, now, parser) ==
    IF JsonLoadsException(element) # NoException
    THEN [exc |-> JsonLoadsException(element), log |-> "none", out |-> <<>>]
    ELSE IF element.kind # "object"
    THEN [exc |-> "AttributeError", log |-> "none", out |-> <<>>]
    ELSE LET event_data == element.body
             event_type == Get(event_data, "event_type")
             stamped == Put(event_data, "processed_timestamp",
                            Str(IsoFormat(now) \o <<"Z">>))
             src == EventDateSource(event_type, event_data, now, parser)
         IN  IF ~Truthy(event_type)
             THEN [exc |-> NoException, log |-> "warning", out |-> <<>>]
             ELSE IF ~IsParsed(src)
             THEN [exc |-> src.error, log |-> "none", out |-> <<>>]
             ELSE [exc |-> NoException, log |-> "none",
                   out |-> <<[event_type |-> event_type,
                              event_data |-> Put(stamped, "event_date",
                                                 Str(DateIsoFormat(src)))]>>]

\* EventProcessor.process that derives event_date from the clock alone
EventProcessorClockDate(element, now, parser) ==
    LET r == EventProcessorBody(element, now, parser)
    IN  IF r.exc # NoException THEN [exc |-> NoException, log |-> "error", out |-> <<>>]
        ELSE [r EXCEPT !.out =
                 [i \in DOMAIN r.out |->
                     [r.out[i] EXCEPT !.event_data =
                         Put(@, "event_date", Str(DateIsoFormat(now)))]]]

\* EventProcessor.process that enriches a message without event_type too
EventProcessorKeepsNoCategory(element, now, parser) ==
    LET r == EventProcessorBody(element, now, parser)
    IN  IF r.exc # NoException THEN [exc |-> NoException, log |-> "error", out |-> <<>>]
        ELSE IF r.log = "warning"
        THEN [exc |-> NoException, log |-> "none",
              out |-> <<[event_type |-> Get(element.body, "event_type"),
                         event_data |-> Put(Put(element.body, "processed_timestamp",
                                                Str(IsoFormat(now) \o <<"Z">>)),
                                            "event_date", Str(DateIsoFormat(now)))]>>]
        ELSE r

\* EventProcessor.process that drops every category it does not know
EventProcessorDropsUnknown(element, now, parser) ==
    LET r == EventProcessorBody(element, now, parser)
    IN  IF r.exc # NoException THEN [exc |-> NoException, log |-> "error", out |-> <<>>]
        ELSE IF Len(r.out) = 1 /\ DesignatedField(r.out[1].event_type) = ""
        THEN [exc |-> NoException, log |-> "warning", out |-> <<>>]
        ELSE r

\* EventProcessor.process that leaves event_date to the source
EventProcessorNoEventDate(element, now, parser) ==
    LET r == EventProcessorBody(element, now, parser)
    IN  IF r.exc # NoException THEN [exc |-> NoException, log |-> "error", out |-> <<>>]
        ELSE [r EXCEPT !.out =
                 [i \in DOMAIN r.out |->
                     [r.out[i] EXCEPT !.event_data =
                         IF "event_date" \in DOMAIN element.body THEN @
                         ELSE Without(@, "event_date")]]]

\* EventProcessor.process that keeps a processed_timestamp the source
\* supplied
EventProcessorSetDefault(element, now, parser) ==
    LET r == EventProcessorBody(element, now, parser)
    IN  IF r.exc # NoException THEN [exc |-> NoException, log |-> "error", out |-> <<>>]
        ELSE [r EXCEPT !.out =
                 [i \in DOMAIN r.out |->
                     [r.out[i] EXCEPT !.event_data =
                         IF "processed_timestamp" \in DOMAIN element.body
                         THEN Put(@, "processed_timestamp",
                                  element.body["processed_timestamp"])
                         ELSE @]]]

\* EventProcessor.process that takes the clock's date where the designated
\* timestamp cannot be parsed
EventProcessorFallsBackOnBadTimestamp(element, now, parser) ==
    LET r == EventProcessorBody(element, now, parser)
    IN  IF r.exc # NoException
        THEN IF element.kind = "object" /\ Truthy(Get(element.body, "event_type"))
             THEN [exc |-> NoException, log |-> "error",
                   out |-> <<[event_type |-> Get(element.body, "event_type"),
                              event_data |->
                                  Put(Put(element.body, "processed_timestamp",
                                          Str(IsoFormat(now) \o <<"Z">>)),
                                      "event_date", Str(DateIsoFormat(now)))]>>]
             ELSE [exc |-> NoException, log |-> "error", out |-> <<>>]
        ELSE r

\* EventProcessor.process: every exception of the body is caught and logged
EventProcessorProcess(element, now, parser) ==
    LET r == EventProcessorBody(element, now, parser)
    IN  IF r.exc # NoException THEN [exc |-> NoException, log |-> "error", out |-> <<>>]
        ELSE r

\* FormatForBigQuery's mapping with the plural lost
TableMappingSingular(event_type) ==
    IF event_type \in {Str(S_order), Str(S_inventory), Str(S_user_activity)}
    THEN event_type ELSE None

\* table_mapping.get(event_type) of FormatForBigQuery, for a hashable key
TableMapping(event_type) ==
    CASE event_type = Str(S_order) -> Str(S_orders)
      [] event_type = Str(S_inventory) -> Str(S_inventory)
      [] event_type = Str(S_user_activity) -> Str(S_user_activity)
      [] OTHER -> None

\* FormatForBigQuery.process on the tuple (event_type, event_data): the
\* exception that leaves it, the dict as it leaves it (the element's own
\* dict, changed in place) and whether that dict is yielded.
FormatForBigQueryProcess(event_type, event_data) ==
    IF ~Hashable(event_type)
    THEN [exc |-> "TypeError", event_data |-> event_data, yields |-> FALSE]
    ELSE IF Truthy(TableMapping(event_type))
    THEN [exc |-> NoException,
          event_data |-> Put(event_data, "_table_name", TableMapping(event_type)),
          yields |-> TRUE]
    ELSE [exc |-> NoException, event_data |-> event_data, yields |-> FALSE]

\* dt.strftime('%Y%m%d%H%M'): the C library's %Y pads the year to four
\* digits or prints it as it is, depending on the build.
Strftime(dt, libc) ==
    (IF libc = "padded" THEN Pad(dt.year, 4) ELSE Decimal(dt.year))
        \o Pad(dt.month, 2) \o Pad(dt.day, 2) \o Pad(dt.hour, 2) \o Pad(dt.minute, 2)

LibcYearFormats == {"padded", "plain"}

\* Lines 117-129: the datetime the path is built from.
PathTimeSource(event_type, event_data, now, parser) ==
    LET timestamp_str ==
            IF DesignatedField(event_type) = ""
            THEN Str(IsoFormat(now) \o <<"Z">>)
            ELSE Get(event_data, DesignatedField(event_type))
    IN  IF Truthy(timestamp_str) THEN ParseTimestamp(timestamp_str, parser) ELSE now

\* Line 132
FolderPath(event_type, dt) ==
    S_output \o <<"/">> \o PyStr(event_type) \o <<"/">> \o Pad(dt.year, 4)
        \o <<"/">> \o Pad(dt.month, 2) \o <<"/">> \o Pad(dt.day, 2)
        \o <<"/">> \o Pad(dt.hour, 2) \o <<"/">> \o Pad(dt.minute, 2)

\* Line 135
FileName(event_type, dt, libc) ==
    PyStr(event_type) \o <<"_">> \o Strftime(dt, libc) \o Pad(dt.second, 2)
        \o Pad(dt.microsecond \div 1000, 3) \o S_json

\* json.dumps(event_data): the document, by its keys and their values
JsonDumps(event_data) == [json |-> event_data]

\* The body of FormatForGCS.process inside its try
FormatForGCSBody(event_type, event_data, now, parser, libc) ==
    LET dt == PathTimeSource(event_type, event_data, now, parser)
    IN  IF ~IsParsed(dt) THEN [exc |-> dt.error, out |-> <<>>]
        ELSE [exc |-> NoException,
              out |-> <<[file_path |-> FolderPath(event_type, dt) \o <<"/">>
                                          \o FileName(event_type, dt, libc),
                         json_content |-> JsonDumps(event_data)]>>]

\* FormatForGCS.process that skips the categories it does not know
FormatForGCSKnownOnly(event_type, event_data, now, parser, libc) ==
    IF DesignatedField(event_type) = "" THEN [exc |-> NoException, out |-> <<>>]
    ELSE LET r == FormatForGCSBody(event_type, event_data, now, parser, libc)
         IN  IF r.exc # NoException THEN [exc |-> NoException, out |-> <<>>] ELSE r

\* FormatForGCS.process: every exception of the body is caught and logged
FormatForGCSProcess(event_type, event_data, now, parser, libc) ==
    LET r == FormatForGCSBody(event_type, event_data, now, parser, libc)
    IN  IF r.exc # NoException THEN [exc |-> NoException, out |-> <<>>] ELSE r

(***************************************************************************)
(* The warehouse and the table manager's view of it                        *)
(***************************************************************************)
TableNames == {S_orders, S_inventory, S_user_activity}

\* table_schemas.py: the top-level field names of each schema
OrdersSchema ==
    <<"event_type", "order_id", "customer_id", "order_date", "status", "items",
      "shipping_address", "total_amount", "processed_timestamp", "event_date">>
InventorySchema ==
    <<"event_type", "inventory_id", "product_id", "warehouse_id", "quantity_change",
      "reason", "timestamp", "processed_timestamp", "event_date">>
UserActivitySchema ==
    <<"event_type", "user_id", "activity_type", "ip_address", "user_agent",
      "timestamp", "metadata", "processed_timestamp", "event_date">>

\* a catalog that lacks the entry of user_activity
GetTableSchemaTwoEntries(table_name) ==
    CASE table_name = S_orders -> OrdersSchema
      [] table_name = S_inventory -> InventorySchema
      [] OTHER -> <<>>

\* a catalog that answers every name it does not know with the orders schema
GetTableSchemaDefaultsToOrders(table_name) ==
    CASE table_name = S_orders -> OrdersSchema
      [] table_name = S_inventory -> InventorySchema
      [] table_name = S_user_activity -> UserActivitySchema
      [] OTHER -> OrdersSchema

\* get_table_schema(table_name): the schema, or <<>> where it raises ValueError
GetTableSchema(table_name) ==
    CASE table_name = S_orders -> OrdersSchema
      [] table_name = S_inventory -> InventorySchema
      [] table_name = S_user_activity -> UserActivitySchema
      [] OTHER -> <<>>

\* table_mapping.get(event_type) of process_event, for a hashable key
ProvisionerTableMapping(event_type) ==
    CASE event_type = Str(S_order) -> Str(S_orders)
      [] event_type = Str(S_inventory) -> Str(S_inventory)
      [] event_type = Str(S_user_activity) -> Str(S_user_activity)
      [] OTHER -> None

(***************************************************************************)
(* State                                                                   *)
(***************************************************************************)
VARIABLES
    tables,     \* the warehouse catalog: table name -> number of tables of that name
    env,        \* the table manager's process: "ok", "no_client", "no_project"
    callers,    \* the process_event calls in progress, by caller
    isoParser,  \* the workers' datetime.fromisoformat: "strict" or "lenient"
    clock,      \* index in ClockValues of the last reading of the pipeline workers
    pc,         \* where the message in flight is in the streaming job
    cur,        \* the message in flight
    etype,      \* event_type of the tuple EventProcessor yielded
    edata,      \* the event_data dict of that tuple, one object for both branches
    enrichedAt, \* index in ClockValues of the enricher's reading, 0 before it
    done,       \* the steps after EventProcessor that have handled the tuple
    bqYield,    \* FormatForBigQuery yielded the dict
    filtered,   \* the tables whose filter has seen the yielded dict
    bqWrites,   \* the rows handed to WriteToBigQuery for this message
    gcsOut,     \* the (file_path, json_content) tuples FormatForGCS yielded
    raisedIn,   \* the steps an exception escaped from
    sawBad,     \* a message nothing could be made of was handled before
    gen,        \* the event generator: the request it serves, its last publish
    generation_tasks  \* the generator's registry: task id -> status of its entry

provVars == <<env, callers>>
flowVars == <<isoParser, clock, pc, cur, etype, edata, enrichedAt, done, bqYield, filtered,
              bqWrites, gcsOut, raisedIn, sawBad>>
vars == <<tables, env, callers, isoParser, clock, pc, cur, etype, edata, enrichedAt, done,
          bqYield, filtered, bqWrites, gcsOut, raisedIn, sawBad, gen,
          generation_tasks>>

\* the number of concurrent process_event calls
NumCallers == 2

\* how often the runner may execute FormatForGCS on one tuple
MaxFormats == 2

Callers == 1..NumCallers

NoMsg == [kind |-> "none", body |-> EmptyDict]

\* no Table object has been built
NoTable == [time_partitioning |-> <<>>, clustering_fields |-> <<>>,
            labels |-> <<>>]

IdleCall == [pc |-> "idle", table |-> <<>>, exc |-> NoException,
             sawExists |-> FALSE, createIssued |-> FALSE, answer |-> "none",
             request |-> NoTable, kind |-> "none", event_type |-> None,
             schema |-> <<>>, status |-> 0]

\* the continuous tasks one run of the service may start
MaxTasks == 2

TaskIds == 1..MaxTasks

\* the generator serves no request and has published nothing
IdleGen == [path |-> "idle", event_types |-> <<>>, events_per_type |-> 0,
            i |-> 0, left |-> 0, event_count |-> 0, requested |-> <<>>,
            exc |-> "none", published |-> FALSE, last |-> NoMsg, status |-> 0,
            task_id |-> 0, events_per_minute |-> 0, query |-> <<>>,
            scenario_name |-> <<>>, config |-> <<>>,
            estimated_total_events |-> 0]

\* no task id has been handed out yet
InitTasks == generation_tasks = [id \in TaskIds |-> "unused"]

InitFlow ==
    /\ isoParser \in {"strict", "lenient"}
    /\ clock = 1
    /\ pc = "idle"
    /\ cur = NoMsg
    /\ etype = None
    /\ edata = EmptyDict
    /\ enrichedAt = 0
    /\ done = {}
    /\ bqYield = FALSE
    /\ filtered = {}
    /\ bqWrites = <<>>
    /\ gcsOut = <<>>
    /\ raisedIn = {}
    /\ sawBad = FALSE

InitProv ==
    /\ env \in {"ok", "no_client", "no_project"}
    /\ callers = [c \in Callers |-> IdleCall]

\* A new environment: the dataset has no table yet.
Init ==
    /\ tables = [t \in TableNames |-> 0]
    /\ InitProv
    /\ InitFlow
    /\ gen = IdleGen
    /\ InitTasks

\* The streaming job starts against whatever the catalog holds by then.
InitPipeline ==
    /\ tables \in [TableNames -> {0, 1}]
    /\ env = "ok"
    /\ callers = [c \in Callers |-> IdleCall]
    /\ InitFlow
    /\ gen = IdleGen
    /\ InitTasks

(***************************************************************************)
(* table-manager/main.py: process_event                                    *)
(***************************************************************************)
\* what the table manager may be handed: any JSON document
ProvisionerInputs ==
    {m : m \in {x \in RawMessages : x.kind \in {"object", "non_object"}}}

\* process_event that takes the orders table for every event_type it does
\* not know
ResolveTableDefaultsToOrders(m, e) ==
    IF e = "no_client"
    THEN [IdleCall EXCEPT !.pc = "raised", !.exc = "RuntimeError"]
    ELSE IF m.kind # "object"
    THEN [IdleCall EXCEPT !.pc = "raised", !.exc = "AttributeError"]
    ELSE IF ~Truthy(Get(m.body, "event_type"))
    THEN [IdleCall EXCEPT !.pc = "returned"]
    ELSE IF ~Hashable(Get(m.body, "event_type"))
    THEN [IdleCall EXCEPT !.pc = "raised", !.exc = "TypeError"]
    ELSE IF e = "no_project"
    THEN [IdleCall EXCEPT !.pc = "raised", !.exc = "ValueError"]
    ELSE [IdleCall EXCEPT
              !.pc = "table_exists",
              !.table = IF Truthy(ProvisionerTableMapping(Get(m.body, "event_type")))
                        THEN ProvisionerTableMapping(Get(m.body, "event_type")).v
                        ELSE S_orders]

\* Lines 81-111 of process_event: up to the table identifier.
ResolveTable(m, e) ==
    IF e = "no_client"
    THEN [IdleCall EXCEPT !.pc = "raised", !.exc = "RuntimeError"]
    ELSE IF m.kind # "object"
    THEN [IdleCall EXCEPT !.pc = "raised", !.exc = "AttributeError"]
    ELSE IF ~Truthy(Get(m.body, "event_type"))
    THEN [IdleCall EXCEPT !.pc = "returned"]
    ELSE IF ~Hashable(Get(m.body, "event_type"))
    THEN [IdleCall EXCEPT !.pc = "raised", !.exc = "TypeError"]
    ELSE IF ~Truthy(ProvisionerTableMapping(Get(m.body, "event_type")))
    THEN [IdleCall EXCEPT !.pc = "returned"]
    ELSE IF e = "no_project"
    THEN [IdleCall EXCEPT !.pc = "raised", !.exc = "ValueError"]
    ELSE [IdleCall EXCEPT !.pc = "table_exists",
                          !.table = ProvisionerTableMapping(Get(m.body, "event_type")).v]

\* process_event that never finds a table worth creating
NeedsCreateNever(exists) == FALSE

\* process_event that creates without looking at table_exists
NeedsCreateAlways(exists) == TRUE

\* Line 113: if not table_exists(table_id)
NeedsCreate(exists) == ~exists

\* client.get_table(table_id), as table_exists sees it; fault: the request
\* fails for a reason of the warehouse's own
GetTableAnswer(tbls, t, fault) ==
    IF fault THEN "GoogleAPIError"
    ELSE IF tbls[t] > 0 THEN "found" ELSE "NotFound"

\* the values os.environ.get('ENVIRONMENT', 'dev') may give
Environments == {"dev", "prod"}

\* create_bigquery_table that clusters the orders table alone
BuildTableClustersOrdersOnly(table_name, environment) ==
    [time_partitioning |->
         IF \E i \in DOMAIN GetTableSchema(table_name) :
                GetTableSchema(table_name)[i] = "event_date"
         THEN <<[type |-> "DAY", field |-> "event_date"]>> ELSE <<>>,
     clustering_fields |->
         IF table_name = S_orders THEN <<"customer_id", "status">> ELSE <<>>,
     labels |-> <<[environment |-> environment, managed_by |-> "cloud_function",
                   table_type |-> table_name]>>]

\* Lines 129-152: the Table object create_bigquery_table hands to
\* create_table (an attribute that is not set is <<>>)
BuildTable(table_name, environment) ==
    [time_partitioning |->
         IF \E i \in DOMAIN GetTableSchema(table_name) :
                GetTableSchema(table_name)[i] = "event_date"
         THEN <<[type |-> "DAY", field |-> "event_date"]>> ELSE <<>>,
     clustering_fields |->
         CASE table_name = S_orders -> <<"customer_id", "status">>
           [] table_name = S_inventory -> <<"product_id", "warehouse_id">>
           [] table_name = S_user_activity -> <<"user_id", "activity_type">>
           [] OTHER -> <<>>,
     labels |-> <<[environment |-> environment, managed_by |-> "cloud_function",
                   table_type |-> table_name]>>]

\* client.create_table(table): one atomic step of the warehouse
CreateTableAnswer(tbls, t, fault) ==
    IF fault THEN [answer |-> "GoogleAPIError", tables |-> tbls]
    ELSE IF tbls[t] > 0 THEN [answer |-> "Conflict", tables |-> tbls]
    ELSE [answer |-> "created", tables |-> [tbls EXCEPT ![t] = @ + 1]]

\* create_bigquery_table whose handlers swallow every exception
CreateResultSwallowsAll(answer) == NoException

\* create_bigquery_table without its except Conflict clause
CreateResultConflictFatal(answer) ==
    IF answer = "created" THEN NoException ELSE answer

\* Lines 157-161: the exception create_bigquery_table ends with, given the
\* warehouse's answer (or the ValueError of get_table_schema)
CreateResult(answer) ==
    IF answer \in {"created", "Conflict"} THEN NoException ELSE answer

Invoke(c) ==
    /\ callers[c].pc = "idle"
    /\ \E m \in ProvisionerInputs :
          callers' = [callers EXCEPT ![c] =
                         [ResolveTable(m, env) EXCEPT
                              !.kind = m.kind,
                              !.event_type = Get(m.body, "event_type")]]
    /\ UNCHANGED <<tables, env, flowVars, gen, generation_tasks>>

TableExists(c) ==
    /\ callers[c].pc = "table_exists"
    /\ \E fault \in BOOLEAN :
          LET ans == GetTableAnswer(tables, callers[c].table, fault)
          IN  callers' = [callers EXCEPT ![c] =
                  IF ans \notin {"found", "NotFound"}
                  THEN [@ EXCEPT !.pc = "raised", !.exc = ans, !.answer = ans]
                  ELSE [@ EXCEPT !.pc = IF NeedsCreate(ans = "found")
                                        THEN "create_table" ELSE "returned",
                                 !.sawExists = (ans = "found"),
                                 !.answer = ans]]
    /\ UNCHANGED <<tables, env, flowVars, gen, generation_tasks>>

CreateBigQueryTable(c) ==
    /\ callers[c].pc = "create_table"
    /\ IF GetTableSchema(callers[c].table) = <<>>
       THEN /\ callers' = [callers EXCEPT ![c] =
                   [@ EXCEPT !.pc = IF CreateResult("ValueError") = NoException
                                    THEN "returned" ELSE "raised",
                             !.exc = CreateResult("ValueError"),
                             !.answer = "ValueError"]]
            /\ UNCHANGED tables
       ELSE \E fault \in BOOLEAN, environment \in Environments :
               LET r == CreateTableAnswer(tables, callers[c].table, fault)
               IN  /\ tables' = r.tables
                   /\ callers' = [callers EXCEPT ![c] =
                          [@ EXCEPT !.pc = IF CreateResult(r.answer) = NoException
                                           THEN "returned" ELSE "raised",
                                    !.exc = CreateResult(r.answer),
                                    !.createIssued = TRUE,
                                    !.answer = r.answer,
                                    !.request = BuildTable(callers[c].table,
                                                           environment)]]
    /\ UNCHANGED <<env, flowVars, gen, generation_tasks>>

\* the names get_table_schema is asked for
TableNameInputs ==
    {n : n \in TableNames \cup
                 {S_order, S_refund, S_output, <<>>, S_orders \o <<" ">>,
                  <<"O", "r", "d", "e", "r", "s">>,
                  <<"u", "s", "e", "r", "-", "a", "c", "t", "i", "v", "i", "t", "y">>}}

\* get_table_schema(table_name), called on its own: the schema comes back or
\* ValueError is raised.
GetTableSchemaCall(c) ==
    /\ callers[c].pc = "idle"
    /\ \E table_name \in TableNameInputs :
          callers' = [callers EXCEPT ![c] =
              IF GetTableSchema(table_name) = <<>>
              THEN [IdleCall EXCEPT !.pc = "raised", !.exc = "ValueError",
                                    !.table = table_name]
              ELSE [IdleCall EXCEPT !.pc = "returned", !.table = table_name,
                                    !.schema = GetTableSchema(table_name)]]
    /\ UNCHANGED <<tables, env, flowVars, gen, generation_tasks>>

\* what may be wrong with a push request before process_event is called:
\* the body is no JSON, is JSON but no object, is no Pub/Sub envelope; the
\* data is no base64, its bytes are no UTF-8, its text is no JSON
DecodeFaults ==
    {"body_not_json", "body_not_object", "invalid_envelope", "invalid_base64",
     "invalid_utf8", "invalid_json"}

\* the push requests: with or without the ce-specversion header, broken in
\* one of these ways or carrying an event
Requests ==
    {r : r \in [ce_specversion : BOOLEAN, fault : DecodeFaults, event : {NoMsg}]
              \cup [ce_specversion : BOOLEAN, fault : {"none"},
                    event : ProvisionerInputs]}

\* Lines 56-61: the exception the decoding of the request ends with
DecodeException(fault) ==
    CASE fault = "body_not_json" -> "JSONDecodeError"
      [] fault = "body_not_object" -> "TypeError"
      [] fault = "invalid_envelope" -> "ValidationError"
      [] fault = "invalid_base64" -> "binascii.Error"
      [] fault = "invalid_utf8" -> "UnicodeDecodeError"
      [] fault = "invalid_json" -> "JSONDecodeError"
      [] OTHER -> NoException

\* Lines 66-74: the HTTP status for the way the try block ended
HandlerStatus(exc) == IF exc = "JSONDecodeError" THEN 400 ELSE 200

\* handle_pubsub_message up to the call of process_event, the call's first
\* lines included
HandlePubSubMessage(c) ==
    /\ callers[c].pc = "idle"
    /\ \E r \in Requests :
          callers' = [callers EXCEPT ![c] =
              IF ~r.ce_specversion
              THEN [IdleCall EXCEPT !.pc = "answered", !.kind = "no_header",
                                    !.status = 400]
              ELSE IF DecodeException(r.fault) # NoException
              THEN [IdleCall EXCEPT !.pc = "answered", !.kind = r.fault,
                                    !.exc = DecodeException(r.fault),
                                    !.status = HandlerStatus(DecodeException(r.fault))]
              ELSE [ResolveTable(r.event, env) EXCEPT
                        !.kind = r.event.kind,
                        !.event_type = Get(r.event.body, "event_type")]]
    /\ UNCHANGED <<tables, env, flowVars, gen, generation_tasks>>

\* handle_pubsub_message after process_event: the return of line 66 or the
\* except clauses of lines 68-74
Answer(c) ==
    /\ callers[c].pc \in {"returned", "raised"}
    /\ callers' = [callers EXCEPT ![c].pc = "answered",
                                  ![c].status = HandlerStatus(callers[c].exc)]
    /\ UNCHANGED <<tables, env, flowVars, gen, generation_tasks>>

\* The response has gone out.
Close(c) ==
    /\ callers[c].pc = "answered"
    /\ callers' = [callers EXCEPT ![c] = IdleCall]
    /\ UNCHANGED <<tables, env, flowVars, gen, generation_tasks>>

\* The call is over: its caller has the result.
Return(c) ==
    /\ callers[c].pc \in {"returned", "raised"}
    /\ callers' = [callers EXCEPT ![c] = IdleCall]
    /\ UNCHANGED <<tables, env, flowVars, gen, generation_tasks>>

(***************************************************************************)
(* streaming_pipeline.py: run_pipeline, one message at a time              *)
(***************************************************************************)
\* the messages nothing can be made of: no JSON object, or a designated
\* timestamp that cannot be parsed
BadMessages == Unparseable \cup BadTimestampObjects

\* a sink that may create the table it misses
CreateIfNeeded(t) == "CREATE_IF_NEEDED"

\* create_disposition of the three WriteToBigQuery transforms
CreateDisposition(t) == "CREATE_NEVER"

\* a write that replaces the table it finds: the old table is dropped
WriteToBigQueryTruncate(tbls, t, row) ==
    IF tbls[t] > 0
    THEN [result |-> "appended", tables |-> [tbls EXCEPT ![t] = 0]]
    ELSE [result |-> "failed", tables |-> tbls]

\* WriteToBigQuery(table_specs[t], WRITE_APPEND, create_disposition) of one row
WriteToBigQuery(tbls, t, row) ==
    IF tbls[t] > 0
    THEN [result |-> "appended", tables |-> tbls]
    ELSE IF CreateDisposition(t) = "CREATE_IF_NEEDED"
    THEN [result |-> "appended", tables |-> [tbls EXCEPT ![t] = @ + 1]]
    ELSE [result |-> "failed", tables |-> tbls]

\* a filter that lets every yielded dict through
FilterTableAny(t, x) == TRUE

\* Lines 216, 228, 240: the Filter of the branch of table t
FilterTable(t, x) == Get(x, "_table_name") = Str(t)

\* a Map that hands the dict on as it is
RemoveTableNameKeepsAll(x) == x

\* Lines 218, 230, 242: the Map that builds the row without _table_name
RemoveTableName(x) == Without(x, "_table_name")

\* ReadFromPubSub hands the next message to the job
Deliver(msgs) ==
    /\ pc = "idle"
    /\ \E m \in msgs : cur' = m
    /\ pc' = "ProcessEvents"
    /\ UNCHANGED <<tables, provVars, gen, generation_tasks, isoParser, clock, etype, edata, enrichedAt,
                   done, bqYield, filtered, bqWrites, gcsOut, raisedIn, sawBad>>

\* 'ProcessEvents' >> beam.ParDo(EventProcessor())
ProcessEvents ==
    /\ pc = "ProcessEvents"
    /\ \E i \in clock..Len(ClockValues) :
          LET r == EventProcessorProcess(cur, ClockValues[i], isoParser)
          IN  /\ clock' = i
              /\ enrichedAt' = i
              /\ IF r.exc # NoException
                 THEN /\ pc' = "failed"
                      /\ raisedIn' = raisedIn \cup {"ProcessEvents"}
                      /\ UNCHANGED <<etype, edata>>
                 ELSE IF Len(r.out) = 0
                 THEN /\ pc' = "done"
                      /\ UNCHANGED <<etype, edata, raisedIn>>
                 ELSE /\ pc' = "fanout"
                      /\ etype' = r.out[1].event_type
                      /\ edata' = r.out[1].event_data
                      /\ UNCHANGED raisedIn
    /\ UNCHANGED <<tables, provVars, gen, generation_tasks, isoParser, cur, done, bqYield, filtered,
                   bqWrites, gcsOut, sawBad>>

\* 'FormatForBigQuery' >> beam.ParDo(FormatForBigQuery())
FormatForBigQueryStep ==
    /\ pc = "fanout"
    /\ "FormatForBigQuery" \notin done
    /\ LET r == FormatForBigQueryProcess(etype, edata)
       IN  /\ edata' = r.event_data
           /\ bqYield' = r.yields
           /\ IF r.exc # NoException
              THEN /\ pc' = "failed"
                   /\ raisedIn' = raisedIn \cup {"FormatForBigQuery"}
              ELSE UNCHANGED <<pc, raisedIn>>
    /\ done' = done \cup {"FormatForBigQuery"}
    /\ UNCHANGED <<tables, provVars, gen, generation_tasks, isoParser, clock, cur, etype, enrichedAt,
                   filtered, bqWrites, gcsOut, sawBad>>

\* 'FormatForGCS' >> beam.ParDo(FormatForGCS()), then x[1] goes to the sink
FormatForGCSStep ==
    /\ pc = "fanout"
    /\ "FormatForGCS" \notin done
    /\ \E i \in clock..Len(ClockValues), libc \in LibcYearFormats :
          LET r == FormatForGCSProcess(etype, edata, ClockValues[i], isoParser,
                                       libc)
          IN  /\ clock' = i
              /\ gcsOut' = r.out
              /\ IF r.exc # NoException
                 THEN /\ pc' = "failed"
                      /\ raisedIn' = raisedIn \cup {"FormatForGCS"}
                 ELSE UNCHANGED <<pc, raisedIn>>
    /\ done' = done \cup {"FormatForGCS"}
    /\ UNCHANGED <<tables, provVars, gen, generation_tasks, isoParser, cur, etype, edata, enrichedAt,
                   bqYield, filtered, bqWrites, sawBad>>

\* One of the three branches on the dict FormatForBigQuery yielded: the
\* Filter on _table_name, the Map that removes the key, WriteToBigQuery.
WriteBranch(t) ==
    /\ pc = "fanout"
    /\ bqYield
    /\ t \notin filtered
    /\ filtered' = filtered \cup {t}
    /\ IF FilterTable(t, edata)
       THEN LET row == RemoveTableName(edata)
                w == WriteToBigQuery(tables, t, row)
            IN  /\ tables' = w.tables
                /\ bqWrites' = Append(bqWrites,
                                      [table |-> t, row |-> row, result |-> w.result])
       ELSE UNCHANGED <<tables, bqWrites>>
    /\ UNCHANGED <<provVars, gen, generation_tasks, isoParser, clock, pc, cur, etype, edata, enrichedAt,
                   done, bqYield, gcsOut, raisedIn, sawBad>>

\* At-least-once execution: the runner runs FormatForGCS on the same tuple
\* once more, at a later reading of the clock.
FormatForGCSRetry ==
    /\ pc = "fanout"
    /\ "FormatForGCS" \in done
    /\ Len(gcsOut) \in 1..(MaxFormats - 1)
    /\ \E i \in clock..Len(ClockValues), libc \in LibcYearFormats :
          LET r == FormatForGCSProcess(etype, edata, ClockValues[i], isoParser,
                                       libc)
          IN  /\ clock' = i
              /\ gcsOut' = gcsOut \o r.out
    /\ UNCHANGED <<tables, provVars, gen, generation_tasks, isoParser, pc, cur, etype, edata, enrichedAt,
                   done, bqYield, filtered, bqWrites, raisedIn, sawBad>>

\* One more event goes through EventProcessor and FormatForGCS; what
\* FormatForGCS yields for it is kept next to what it yielded before.
FormatNextEvent ==
    /\ pc = "idle"
    /\ Len(gcsOut) < 2
    /\ \E m \in PathMessages, libc \in LibcYearFormats :
          LET e == EventProcessorProcess(m, ClockValues[clock], isoParser).out
          IN  /\ Len(e) = 1
              /\ gcsOut' = gcsOut \o FormatForGCSProcess(e[1].event_type,
                                                         e[1].event_data,
                                                         ClockValues[clock],
                                                         isoParser, libc).out
    /\ UNCHANGED <<tables, provVars, gen, generation_tasks, isoParser, clock, pc, cur, etype, edata,
                   enrichedAt, done, bqYield, filtered, bqWrites, raisedIn,
                   sawBad>>

FanoutOver ==
    /\ {"FormatForBigQuery", "FormatForGCS"} \subseteq done
    /\ bqYield => filtered = TableNames

\* The message is acknowledged; the job is ready for the next one.
Ack ==
    /\ pc = "done" \/ (pc = "fanout" /\ FanoutOver)
    /\ pc' = "idle"
    /\ cur' = NoMsg
    /\ etype' = None
    /\ edata' = EmptyDict
    /\ enrichedAt' = 0
    /\ done' = {}
    /\ bqYield' = FALSE
    /\ filtered' = {}
    /\ bqWrites' = <<>>
    /\ gcsOut' = <<>>
    /\ sawBad' = (sawBad \/ cur \in BadMessages)
    /\ UNCHANGED <<tables, provVars, gen, generation_tasks, isoParser, clock, raisedIn>>

(***************************************************************************)
(* event-generator/main.py                                                 *)
(***************************************************************************)
\* the day before
PrevDay(dt) ==
    IF dt.day > 1 THEN [dt EXCEPT !.day = @ - 1]
    ELSE IF dt.month > 1
    THEN [dt EXCEPT !.month = @ - 1, !.day = DaysInMonth(dt.year, dt.month - 1)]
    ELSE [dt EXCEPT !.year = @ - 1, !.month = 12, !.day = 31]

\* dt - timedelta(minutes=k), for k of less than a day
MinusMinutes(dt, k) ==
    LET m == dt.hour * 60 + dt.minute - k
    IN  IF m >= 0 THEN [dt EXCEPT !.hour = m \div 60, !.minute = m % 60]
        ELSE [PrevDay(dt) EXCEPT !.hour = (m + 1440) \div 60,
                                 !.minute = (m + 1440) % 60]

\* the values random.randint gives the minutes an event lies in the past
MinutesAgo == {0, 1}

\* generate_order_event: the values that are drawn at random are AnyValue
GenerateOrderEvent(now, minutes) ==
    OrderPayload(Str(IsoFormat(MinusMinutes(now, minutes)) \o <<"Z">>))

GenerateInventoryEvent(now, minutes) ==
    InventoryPayload(Str(IsoFormat(MinusMinutes(now, minutes)) \o <<"Z">>))

GenerateUserActivityEvent(now, minutes) ==
    UserActivityPayload(Str(IsoFormat(MinusMinutes(now, minutes)) \o <<"Z">>))

\* generate_event that makes an event of whatever type it is asked for
GenerateEventOfAnyType(event_type, now, minutes) ==
    IF ~Hashable(event_type) THEN [exc |-> "TypeError", event |-> EmptyDict]
    ELSE CASE event_type = Str(S_order) ->
                [exc |-> NoException, event |-> GenerateOrderEvent(now, minutes)]
           [] event_type = Str(S_user_activity) ->
                [exc |-> NoException,
                 event |-> GenerateUserActivityEvent(now, minutes)]
           [] OTHER ->
                [exc |-> NoException,
                 event |-> Put(GenerateInventoryEvent(now, minutes), "event_type",
                               event_type)]

\* generate_event(event_type): the event, or the exception it raises
GenerateEvent(event_type, now, minutes) ==
    IF ~Hashable(event_type) THEN [exc |-> "TypeError", event |-> EmptyDict]
    ELSE CASE event_type = Str(S_order) ->
                [exc |-> NoException, event |-> GenerateOrderEvent(now, minutes)]
           [] event_type = Str(S_inventory) ->
                [exc |-> NoException, event |-> GenerateInventoryEvent(now, minutes)]
           [] event_type = Str(S_user_activity) ->
                [exc |-> NoException,
                 event |-> GenerateUserActivityEvent(now, minutes)]
           [] OTHER -> [exc |-> "ValueError", event |-> EmptyDict]

\* gen.generate_event(event_type) and, if it returns, publish_event(event),
\* which puts the event's JSON on the topic (ok) or fails and returns False
GenerateAndPublish(g, event_type, now, minutes, ok) ==
    LET r == GenerateEvent(event_type, now, minutes)
    IN  [g EXCEPT !.requested = <<event_type>>,
                  !.exc = r.exc,
                  !.published = (r.exc = NoException /\ ok),
                  !.last = IF r.exc = NoException /\ ok THEN Object(r.event) ELSE @]

\* the event types the path of /generate/single/{event_type} may name
SingleEventTypes ==
    {e : e \in {Str(S_order), Str(S_inventory), Str(S_user_activity),
                Str(S_refund), Str(S_orders), Str(<<"O", "r", "d", "e", "r">>)}}

\* the event_types lists a GenerationConfig may hold: a list of anything
ConfigEventTypes ==
    {<<>>,
     <<Str(S_order), Str(S_inventory), Str(S_user_activity)>>,
     <<Str(S_order), Str(S_refund)>>,
     <<List(<<"[", "'", "x", "'", "]">>), Str(S_user_activity)>>,
     <<None, Str(S_inventory)>>}

GenerationConfigs ==
    {c : c \in [event_types : ConfigEventTypes, events_per_minute : {0, 3, 4}]}

\* the events one continuous task may count
MaxEvents == 2

\* POST /generate/single/{event_type}
GenerateSingleEvent ==
    /\ gen.path = "idle"
    /\ \E event_type \in SingleEventTypes, i \in DOMAIN ClockValues,
          minutes \in MinutesAgo, ok \in BOOLEAN :
          LET g == GenerateAndPublish(IdleGen, event_type, ClockValues[i],
                                      minutes, ok)
          IN  gen' = [g EXCEPT !.path = "done",
                               !.status = IF g.exc = "ValueError" THEN 400
                                          ELSE IF g.published THEN 200 ELSE 500]
    /\ UNCHANGED <<tables, provVars, flowVars, generation_tasks>>

\* POST /generate/batch, up to the loops
GenerateBatchEvents ==
    /\ gen.path = "idle"
    /\ \E config \in GenerationConfigs :
          gen' = IF Len(config.event_types) = 0
                 THEN [IdleGen EXCEPT !.path = "done", !.exc = "ZeroDivisionError",
                                      !.status = 500]
                 ELSE [IdleGen EXCEPT
                           !.path = "batch",
                           !.event_types = config.event_types,
                           !.events_per_type =
                               config.events_per_minute \div Len(config.event_types),
                           !.left =
                               config.events_per_minute \div Len(config.event_types),
                           !.i = 1]
    /\ UNCHANGED <<tables, provVars, flowVars, generation_tasks>>

\* One pass of the inner loop of the batch, the step to the next type, or
\* the response after the last.
BatchStep ==
    /\ gen.path = "batch"
    /\ IF gen.i > Len(gen.event_types)
       THEN gen' = [gen EXCEPT !.path = "done", !.status = 200, !.published = FALSE]
       ELSE IF gen.left = 0
       THEN gen' = [gen EXCEPT !.i = @ + 1, !.left = gen.events_per_type,
                               !.published = FALSE]
       ELSE \E i \in DOMAIN ClockValues, minutes \in MinutesAgo, ok \in BOOLEAN :
               gen' = [GenerateAndPublish(gen, gen.event_types[gen.i],
                                          ClockValues[i], minutes, ok)
                           EXCEPT !.left = @ - 1]
    /\ UNCHANGED <<tables, provVars, flowVars, generation_tasks>>

\* the entry of the task is in generation_tasks
InRegistry(id) == generation_tasks[id] \in {"running", "completed", "failed"}

\* POST /generate/start: the entry of a new task id is stored as running and
\* the task is handed to the background tasks.
StartContinuousGeneration ==
    /\ gen.path = "idle"
    /\ \E id \in TaskIds, config \in GenerationConfigs :
          /\ generation_tasks[id] = "unused"
          /\ \A other \in TaskIds : other < id => generation_tasks[other] # "unused"
          /\ generation_tasks' = [generation_tasks EXCEPT ![id] = "running"]
          /\ gen' = [IdleGen EXCEPT !.path = "scheduled",
                                    !.task_id = id,
                                    !.event_types = config.event_types,
                                    !.events_per_minute = config.events_per_minute,
                                    !.status = 200]
    /\ UNCHANGED <<tables, provVars, flowVars>>

\* continuous_generation_task, up to its loop: the two divisions of lines
\* 330-333 are outside every try
ContinuousGenerationTask ==
    /\ gen.path = "scheduled"
    /\ gen' = IF Len(gen.event_types) = 0 \/ gen.events_per_minute = 0
              THEN [gen EXCEPT !.path = "done", !.exc = "ZeroDivisionError"]
              ELSE [gen EXCEPT !.path = "continuous", !.i = 1]
    /\ UNCHANGED <<tables, provVars, flowVars, generation_tasks>>

\* continuous_generation_task whose loop does not look at the registry and
\* whose end writes the status whether the entry is there or not
ContinuousStepUnguarded ==
    /\ gen.path = "continuous"
    /\ \/ /\ gen' = [gen EXCEPT !.path = "done", !.published = FALSE]
          /\ generation_tasks' =
                [generation_tasks EXCEPT ![gen.task_id] = "completed"]
       \/ /\ gen.event_count < MaxEvents
          /\ \E i \in DOMAIN ClockValues, minutes \in MinutesAgo, ok \in BOOLEAN :
                LET g == GenerateAndPublish(gen, gen.event_types[gen.i],
                                            ClockValues[i], minutes, ok)
                IN  gen' = [g EXCEPT
                               !.event_count = IF g.exc = NoException
                                               THEN @ + 1 ELSE @,
                               !.i = IF @ = Len(gen.event_types) THEN 1 ELSE @ + 1]
          /\ UNCHANGED generation_tasks
    /\ UNCHANGED <<tables, provVars, flowVars>>

\* One pass of the loop over config.event_types of the task, or its end
\* when the time is over or the task was stopped.
ContinuousStep ==
    /\ gen.path = "continuous"
    /\ \/ /\ gen' = [gen EXCEPT !.path = "done", !.published = FALSE]
          /\ generation_tasks' =
                IF InRegistry(gen.task_id)
                THEN [generation_tasks EXCEPT ![gen.task_id] = "completed"]
                ELSE generation_tasks
       \/ /\ InRegistry(gen.task_id)
          /\ gen.event_count < MaxEvents
          /\ \E i \in DOMAIN ClockValues, minutes \in MinutesAgo, ok \in BOOLEAN :
                LET g == GenerateAndPublish(gen, gen.event_types[gen.i],
                                            ClockValues[i], minutes, ok)
                IN  gen' = [g EXCEPT
                               !.event_count = IF g.exc = NoException
                                               THEN @ + 1 ELSE @,
                               !.i = IF @ = Len(gen.event_types) THEN 1 ELSE @ + 1]
          /\ UNCHANGED generation_tasks
    /\ UNCHANGED <<tables, provVars, flowVars>>

\* The request is answered, the task is over.
FinishGeneration ==
    /\ gen.path = "done"
    /\ gen' = IdleGen
    /\ UNCHANGED <<tables, provVars, flowVars, generation_tasks>>

\* DELETE /generate/stop/{task_id}: the entry is popped, or 404
StopGenerationTask ==
    /\ \E id \in TaskIds :
          generation_tasks' = IF InRegistry(id)
                              THEN [generation_tasks EXCEPT ![id] = "removed"]
                              ELSE generation_tasks
    /\ UNCHANGED <<tables, provVars, flowVars, gen>>

\* DELETE /generate/stop: every entry is marked stopped and the registry is
\* cleared
StopAllGenerationTasks ==
    /\ generation_tasks' =
          [id \in TaskIds |-> IF InRegistry(id) THEN "removed"
                              ELSE generation_tasks[id]]
    /\ UNCHANGED <<tables, provVars, flowVars, gen>>

\* GET /generate/status/{task_id}: the entry, or 404
GetGenerationStatus ==
    /\ \E id \in TaskIds :
          gen' = [gen EXCEPT !.query =
                      <<"status", id, IF InRegistry(id) THEN 200 ELSE 404>>]
    /\ UNCHANGED <<tables, provVars, flowVars, generation_tasks>>

\* the default of GenerationConfig.event_types
DefaultEventTypes == <<Str(S_order), Str(S_inventory), Str(S_user_activity)>>

light_demo ==
    [events_per_minute |-> 30, duration_minutes |-> 5,
     event_types |-> DefaultEventTypes]

moderate_load ==
    [events_per_minute |-> 60, duration_minutes |-> 10,
     event_types |-> DefaultEventTypes]

heavy_load ==
    [events_per_minute |-> 120, duration_minutes |-> 15,
     event_types |-> DefaultEventTypes]

burst_test ==
    [events_per_minute |-> 300, duration_minutes |-> 3,
     event_types |-> DefaultEventTypes]

sustained_demo ==
    [events_per_minute |-> 90, duration_minutes |-> 30,
     event_types |-> DefaultEventTypes]

stress_test ==
    [events_per_minute |-> 600, duration_minutes |-> 10,
     event_types |-> DefaultEventTypes]

quick_sample ==
    [events_per_minute |-> 12, duration_minutes |-> 1,
     event_types |-> DefaultEventTypes]

orders_only ==
    [events_per_minute |-> 60, duration_minutes |-> 5,
     event_types |-> <<Str(S_order)>>]

inventory_only ==
    [events_per_minute |-> 60, duration_minutes |-> 5,
     event_types |-> <<Str(S_inventory)>>]

user_activity_only ==
    [events_per_minute |-> 60, duration_minutes |-> 5,
     event_types |-> <<Str(S_user_activity)>>]

\* DemoScenarios.get_scenario: the configuration in a list of one, or the
\* empty list for the ValueError of an unknown scenario
GetScenario(scenario_name) ==
    CASE scenario_name = "light_demo" -> <<light_demo>>
      [] scenario_name = "moderate_load" -> <<moderate_load>>
      [] scenario_name = "heavy_load" -> <<heavy_load>>
      [] scenario_name = "burst_test" -> <<burst_test>>
      [] scenario_name = "sustained_demo" -> <<sustained_demo>>
      [] scenario_name = "stress_test" -> <<stress_test>>
      [] scenario_name = "quick_sample" -> <<quick_sample>>
      [] OTHER -> <<>>

\* DemoScenarios.get_all_scenarios, its config and total_events
GetAllScenarios ==
    [scenario_name \in {"light_demo", "moderate_load", "heavy_load",
                        "burst_test", "sustained_demo", "stress_test",
                        "quick_sample", "orders_only", "inventory_only",
                        "user_activity_only"} |->
        CASE scenario_name = "light_demo" ->
                 [config |-> light_demo, total_events |-> 150]
          [] scenario_name = "moderate_load" ->
                 [config |-> moderate_load, total_events |-> 600]
          [] scenario_name = "heavy_load" ->
                 [config |-> heavy_load, total_events |-> 1800]
          [] scenario_name = "burst_test" ->
                 [config |-> burst_test, total_events |-> 900]
          [] scenario_name = "sustained_demo" ->
                 [config |-> sustained_demo, total_events |-> 2700]
          [] scenario_name = "stress_test" ->
                 [config |-> stress_test, total_events |-> 6000]
          [] scenario_name = "quick_sample" ->
                 [config |-> quick_sample, total_events |-> 12]
          [] scenario_name = "orders_only" ->
                 [config |-> orders_only, total_events |-> 300]
          [] scenario_name = "inventory_only" ->
                 [config |-> inventory_only, total_events |-> 300]
          [] scenario_name = "user_activity_only" ->
                 [config |-> user_activity_only, total_events |-> 300]]

\* the names the path of /scenarios/{scenario_name}/start may hold
ScenarioNames == DOMAIN GetAllScenarios \cup {"no_such_scenario"}

\* POST /scenarios/{scenario_name}/start: 400 for the ValueError of
\* get_scenario; otherwise the entry is stored as running, the task is
\* handed to the background tasks and the totals of get_all_scenarios are
\* looked up, whose KeyError is a 500 after the task was scheduled.
StartDemoScenario ==
    /\ gen.path = "idle"
    /\ \E id \in TaskIds, scenario_name \in ScenarioNames :
          /\ generation_tasks[id] = "unused"
          /\ \A other \in TaskIds : other < id => generation_tasks[other] # "unused"
          /\ LET found == GetScenario(scenario_name)
                 listed == scenario_name \in DOMAIN GetAllScenarios
             IN  IF found = <<>>
                 THEN /\ gen' = [IdleGen EXCEPT !.path = "done",
                                                !.scenario_name = <<scenario_name>>,
                                                !.exc = "ValueError",
                                                !.status = 400]
                      /\ UNCHANGED generation_tasks
                 ELSE /\ generation_tasks' =
                            [generation_tasks EXCEPT ![id] = "running"]
                      /\ gen' = [IdleGen EXCEPT
                                    !.path = "scheduled",
                                    !.task_id = id,
                                    !.scenario_name = <<scenario_name>>,
                                    !.config = found,
                                    !.event_types = found[1].event_types,
                                    !.events_per_minute = found[1].events_per_minute,
                                    !.estimated_total_events =
                                        IF listed
                                        THEN GetAllScenarios[scenario_name].total_events
                                        ELSE 0,
                                    !.status = IF listed THEN 200 ELSE 500]
    /\ UNCHANGED <<tables, provVars, flowVars>>

(***************************************************************************)
(* Specifications                                                          *)
(***************************************************************************)
\* the messages of the specification in which the job races the table manager
RaceMessages ==
    {m : m \in {Object(OrderPayload(Str(TsMillis))),
                Object(InventoryPayload(Str(TsMicros))),
                Object(Put(InventoryPayload(Str(TsMillis)), "event_type",
                           Str(S_refund))),
                Object(Without(OrderPayload(Str(TsMillis)), "event_type"))}}

PipelineStep(msgs) ==
    \/ Deliver(msgs)
    \/ ProcessEvents
    \/ FormatForBigQueryStep
    \/ FormatForGCSStep
    \/ \E t \in TableNames : WriteBranch(t)
    \/ Ack

ProvisionerStep(c) ==
    \/ Invoke(c)
    \/ TableExists(c)
    \/ CreateBigQueryTable(c)
    \/ Return(c)

NextPipeline == PipelineStep(RawMessages)

NextProv == \E c \in Callers : ProvisionerStep(c)

NextRace == PipelineStep(RaceMessages) \/ ProvisionerStep(1)

\* the messages whose path does not depend on the C library
DupMessages == {m : m \in RawMessages \ EarlyYearObjects}

NextDup == PipelineStep(DupMessages) \/ FormatForGCSRetry

\* the streaming job alone, against a catalog that does not change
Spec == InitPipeline /\ [][NextPipeline]_vars

\* concurrent calls of the table manager alone
SpecProv == Init /\ [][NextProv]_vars

\* the streaming job and the table manager on the same warehouse
SpecRace == Init /\ [][NextRace]_vars

\* the streaming job where a tuple may be formatted for the object store
\* more than once
SpecDup == Init /\ [][NextDup]_vars

\* The scheduling of the table manager racing the job: a call that has
\* begun runs to its end; messages of each category keep being delivered;
\* the warehouse answers a lookup and accepts a create, for each table,
\* again and again if it is asked again and again.
RaceFairness ==
    /\ WF_vars(TableExists(1) \/ CreateBigQueryTable(1) \/ Return(1))
    /\ \A t \in TableNames :
          /\ SF_vars(Invoke(1)
                       /\ ProvisionerTableMapping(callers'[1].event_type) = Str(t))
          /\ SF_vars(TableExists(1) /\ callers[1].table = t
                       /\ callers'[1].pc # "raised")
          /\ SF_vars(CreateBigQueryTable(1) /\ callers[1].table = t
                       /\ callers'[1].answer # "GoogleAPIError")

\* the events the job is given while the table manager is watched for
\* progress
LiveMessages ==
    {m : m \in {Object(OrderPayload(Str(TsMillis))),
                Object(InventoryPayload(Str(TsMicros))),
                Object(UserActivityPayload(Str(TsMillis)))}}

\* The warehouse branch of the job on one event, in one step: EventProcessor,
\* FormatForBigQuery, the Filter, the Map and the write of the event's table.
\* bqWrites holds the last write alone.
AppendEvent ==
    /\ pc = "idle"
    /\ \E m \in LiveMessages, t \in TableNames :
          LET e == EventProcessorProcess(m, ClockValues[clock], isoParser).out[1]
              r == FormatForBigQueryProcess(e.event_type, e.event_data)
              row == RemoveTableName(r.event_data)
              w == WriteToBigQuery(tables, t, row)
          IN  /\ r.yields
              /\ FilterTable(t, r.event_data)
              /\ tables' = w.tables
              /\ bqWrites' = <<[table |-> t, row |-> row, result |-> w.result]>>
    /\ UNCHANGED <<provVars, gen, generation_tasks, isoParser, clock, pc, cur, etype, edata, enrichedAt,
                   done, bqYield, filtered, gcsOut, raisedIn, sawBad>>

NextLive == AppendEvent \/ ProvisionerStep(1)

\* the race under this scheduling
SpecLive == Init /\ [][NextLive]_vars /\ RaceFairness

\* the table manager behind its HTTP entry point
NextHandler ==
    \E c \in Callers :
        \/ HandlePubSubMessage(c)
        \/ TableExists(c)
        \/ CreateBigQueryTable(c)
        \/ Answer(c)
        \/ Close(c)

SpecHandler == Init /\ [][NextHandler]_vars

\* the event generator on its own
NextGenerator ==
    \/ GenerateSingleEvent
    \/ GenerateBatchEvents
    \/ BatchStep
    \/ StartContinuousGeneration
    \/ ContinuousGenerationTask
    \/ ContinuousStep
    \/ FinishGeneration

SpecGenerator == Init /\ [][NextGenerator]_vars

\* the continuous tasks, the stop requests and the status queries
NextTasks ==
    \/ StartContinuousGeneration
    \/ ContinuousGenerationTask
    \/ ContinuousStep
    \/ FinishGeneration
    \/ StopGenerationTask
    \/ StopAllGenerationTasks
    \/ GetGenerationStatus

\* The event loop runs a task that is scheduled, and the clock advances:
\* a task in its loop gets to see the end of its time.
TasksFairness ==
    /\ WF_vars(ContinuousGenerationTask)
    /\ WF_vars(ContinuousStep /\ gen'.path = "done")

\* The generator is watched on its own: the table manager has its client
\* and the job's workers one Python.
InitGenerator == Init /\ env = "ok" /\ isoParser = "lenient"

SpecTasks == InitGenerator /\ [][NextTasks]_vars /\ TasksFairness

\* the demo scenarios and the tasks they start
NextScenarios ==
    \/ StartDemoScenario
    \/ ContinuousGenerationTask
    \/ ContinuousStep
    \/ FinishGeneration

SpecScenarios == InitGenerator /\ [][NextScenarios]_vars

\* lookups in the schema catalog
NextCatalog == \E c \in Callers : GetTableSchemaCall(c) \/ Return(c)

SpecCatalog == Init /\ [][NextCatalog]_vars

\* the paths of two events, formatted one after the other
SpecPaths == Init /\ [][FormatNextEvent]_vars

(***************************************************************************)
(* Properties                                                              *)
(***************************************************************************)
\* the message in flight has left EventProcessor
Enriched == pc \in {"fanout", "done", "failed"}

\* the job has nothing left to do for the message in flight
Handled == pc = "done" \/ (pc = "fanout" /\ FanoutOver)

CurEventType == Get(cur.body, "event_type")

\* the payload parses and has no event_type (or a false one)
CurHasNoCategory == cur.kind = "object" /\ ~Truthy(CurEventType)

\* the payload parses and its event_type is none of the three categories
CurHasUnknownCategory ==
    /\ cur.kind = "object"
    /\ Truthy(CurEventType)
    /\ CurEventType \notin {Str(S_order), Str(S_inventory), Str(S_user_activity)}

\* C1: concurrent process_event calls for one table identifier leave exactly
\* one table of that name, and the caller that loses the create race gets
\* Conflict and returns normally: an exception reaches a caller that has
\* resolved its table only when a warehouse request itself failed.
C1_ConcurrentEnsureIsSafe ==
    /\ \A t \in TableNames : tables[t] <= 1
    /\ \A c \in Callers :
          /\ (callers[c].pc = "returned" /\ callers[c].table # <<>>)
                => tables[callers[c].table] = 1
          /\ callers[c].answer = "Conflict"
                => callers[c].pc = "returned" /\ callers[c].exc = NoException
          /\ (callers[c].pc = "raised" /\ callers[c].table # <<>>)
                => callers[c].answer = "GoogleAPIError"

\* Two calls for the same table both went as far as the create: one created
\* it, the other got Conflict, and both returned.
C1_Witness ==
    \E c, d \in Callers :
        /\ callers[c].table = callers[d].table
        /\ callers[c].pc = "returned" /\ callers[c].answer = "created"
        /\ callers[d].pc = "returned" /\ callers[d].answer = "Conflict"

\* C2: no step of the streaming job changes the catalog or the table
\* manager's calls, and a row is appended exactly when its table exists at
\* the time of the write: against a missing table the write fails and the
\* table stays missing.
C2_SinkNeverCreates ==
    [][/\ flowVars' # flowVars => (tables' = tables /\ callers' = callers)
       /\ Len(bqWrites') = Len(bqWrites) + 1 =>
             LET w == bqWrites'[Len(bqWrites')]
             IN  /\ (w.result = "appended") <=> (tables[w.table] > 0)
                 /\ (w.result = "failed") <=> (tables[w.table] = 0)
                 /\ tables'[w.table] = tables[w.table]]_vars

\* A write failed for want of its table, which the table manager created
\* only afterwards.
C2_Witness ==
    \E i \in DOMAIN bqWrites :
        bqWrites[i].result = "failed" /\ tables[bqWrites[i].table] = 1

\* C3: a table's catalog entry is created at most once, and a call whose
\* existence query found the table returns without a create request.
C3_CreateOnceAndNoOpAfter ==
    /\ [](\A c \in Callers :
            callers[c].sawExists =>
                /\ ~callers[c].createIssued
                /\ callers[c].pc = "returned"
                /\ callers[c].exc = NoException)
    /\ [][\A t \in TableNames :
            tables'[t] # tables[t] => (tables[t] = 0 /\ tables'[t] = 1)]_vars

\* A call found its table in the catalog and returned.
C3_Witness ==
    \E c \in Callers :
        /\ callers[c].sawExists /\ callers[c].pc = "returned"
        /\ tables[callers[c].table] = 1

\* C4: a create that fails for another reason than Conflict ends the call
\* with that exception and leaves the catalog as it was; Conflict alone ends
\* it normally.
C4_CreateFailureSurfaces ==
    /\ [](\A c \in Callers :
            callers[c].createIssued =>
                /\ callers[c].answer \notin {"created", "Conflict"}
                      => callers[c].pc = "raised" /\ callers[c].exc = callers[c].answer
                /\ callers[c].answer \in {"created", "Conflict"}
                      => callers[c].pc = "returned" /\ callers[c].exc = NoException)
    /\ [][\A c \in Callers :
            (callers[c].pc = "create_table" /\ callers'[c].pc = "raised")
                => tables' = tables]_vars

\* A create request failed in the warehouse, the call raised and the table
\* is still missing.
C4_Witness ==
    \E c \in Callers :
        /\ callers[c].createIssued /\ callers[c].answer = "GoogleAPIError"
        /\ callers[c].pc = "raised"
        /\ tables[callers[c].table] = 0

\* C5: for a payload that parses and has no event_type, EventProcessor
\* yields nothing: no step after it runs, so no row reaches the warehouse
\* write and no record the object-store write.
C5_NoCategoryDropped ==
    (CurHasNoCategory /\ Enriched) =>
        /\ pc = "done"
        /\ etype = None /\ edata = EmptyDict
        /\ done = {} /\ filtered = {} /\ ~bqYield
        /\ bqWrites = <<>> /\ gcsOut = <<>>

\* A message whose payload has no event_type key has been through
\* EventProcessor.
C5_Witness ==
    /\ cur.kind = "object" /\ "event_type" \notin DOMAIN cur.body
    /\ pc = "done"

\* C6: no single message crashes the streaming flow: no step lets an
\* exception out, and a message that is no JSON object or whose designated
\* timestamp cannot be parsed yields nothing.
C6_NoMessageCrashesFlow ==
    /\ raisedIn = {}
    /\ pc # "failed"
    /\ (cur \in BadMessages /\ Enriched) =>
          (pc = "done" /\ bqWrites = <<>> /\ gcsOut = <<>>)

\* The part of C6 that holds: EventProcessor.process and FormatForGCS.process
\* never let an exception out, and a message that is undecodable, invalid
\* JSON, no JSON object or has an unparseable designated timestamp yields
\* nothing and leaves the job ready for the next message.
C6_BadMessageIsolated ==
    /\ raisedIn \cap {"ProcessEvents", "FormatForGCS"} = {}
    /\ (cur \in BadMessages /\ Enriched) =>
          /\ pc = "done"
          /\ raisedIn = {}
          /\ etype = None /\ edata = EmptyDict /\ done = {}
          /\ bqWrites = <<>> /\ gcsOut = <<>>
    /\ (sawBad /\ pc # "failed") => raisedIn = {}

\* After such a message, a valid one went through both branches.
C6_BadMessageIsolatedWitness ==
    /\ sawBad
    /\ cur \in ValidObjects
    /\ pc = "fanout" /\ FanoutOver
    /\ Len(gcsOut) = 1 /\ Len(bqWrites) = 1

\* C7 as the specification states it: a message with no category, or with
\* one that is not recognized, never reaches the two formatting steps.
C7_Original ==
    (CurHasNoCategory \/ CurHasUnknownCategory) => (pc # "fanout" /\ done = {})

\* C7, amended: a message with no category never reaches the formatting
\* steps; a message with an unrecognized category is enriched and handed to
\* them, and only FormatForBigQuery yields nothing for it.
C7_UnknownCategoryReachesRouter ==
    /\ (CurHasNoCategory /\ Enriched) => (pc = "done" /\ done = {})
    /\ (CurHasUnknownCategory /\ Enriched) =>
          /\ pc \in {"fanout", "failed"}
          /\ etype = CurEventType
          /\ ~bqYield /\ filtered = {} /\ bqWrites = <<>>
          /\ pc = "failed" => raisedIn = {"FormatForBigQuery"}

\* Both formatting steps have run on an event of an unrecognized category.
C7_Witness ==
    /\ CurHasUnknownCategory
    /\ done = {"FormatForBigQuery", "FormatForGCS"}
    /\ pc = "fanout"

\* C8: FormatForBigQuery yields order events for table orders, inventory for
\* inventory and user_activity for user_activity, and nothing for any other
\* category, for which FormatForGCS still yields a non-empty path.
C8_Routing ==
    /\ "FormatForBigQuery" \in done =>
          /\ etype = Str(S_order) =>
                bqYield /\ Get(edata, "_table_name") = Str(S_orders)
          /\ etype = Str(S_inventory) =>
                bqYield /\ Get(edata, "_table_name") = Str(S_inventory)
          /\ etype = Str(S_user_activity) =>
                bqYield /\ Get(edata, "_table_name") = Str(S_user_activity)
          /\ CurHasUnknownCategory =>
                ~bqYield /\ "_table_name" \notin DOMAIN edata
    /\ \A i \in DOMAIN bqWrites :
          /\ etype = Str(S_order) => bqWrites[i].table = S_orders
          /\ etype = Str(S_inventory) => bqWrites[i].table = S_inventory
          /\ etype = Str(S_user_activity) => bqWrites[i].table = S_user_activity
    /\ (CurHasUnknownCategory /\ "FormatForGCS" \in done) =>
          /\ Len(gcsOut) = 1
          /\ Len(gcsOut[1].file_path) > 0

\* An order event has been written to the table orders.
C8_Witness ==
    /\ etype = Str(S_order)
    /\ \E i \in DOMAIN bqWrites : bqWrites[i].table = S_orders
    /\ "FormatForGCS" \in done

\* C9 as the specification states it: an event with a missing or an
\* unrecognized category still gets its record from the object-store branch.
C9_Original ==
    ((CurHasNoCategory \/ CurHasUnknownCategory) /\ Handled) => Len(gcsOut) = 1

\* C9, amended: an event with an unrecognized category gets no warehouse
\* row and one record from FormatForGCS; an event with no category gets
\* neither.
C9_UnknownKeptNoCategoryLost ==
    /\ (CurHasUnknownCategory /\ "FormatForGCS" \in done) =>
          /\ Len(gcsOut) = 1
          /\ gcsOut[1].json_content.json = Without(edata, "_table_name")
          /\ bqWrites = <<>>
    /\ (CurHasNoCategory /\ Handled) => (gcsOut = <<>> /\ bqWrites = <<>>)

\* An event of an unrecognized category is through: a record for the
\* object store, no row for the warehouse.
C9_Witness ==
    /\ CurHasUnknownCategory
    /\ Handled
    /\ Len(gcsOut) = 1 /\ bqWrites = <<>>

\* the text of the designated timestamp field of the message in flight
CurTimestampText == Get(cur.body, DesignatedField(CurEventType)).v

\* C10: for a valid payload of one of the three categories that carries its
\* designated timestamp field, the enriched event's event_date is the date
\* part of that field's text (its first ten characters), whatever the clock
\* reads; a timestamp every parser reads always gives an enriched event.
C10_EventDateFromField ==
    /\ (cur \in ValidObjects \cup SuppliedFieldsObjects /\ Enriched)
          => pc = "fanout"
    /\ (/\ cur \in ValidObjects \cup SuppliedFieldsObjects
                       \cup VersionDependentObjects
        /\ pc = "fanout") =>
          Get(edata, "event_date") = Str(SubSeq(CurTimestampText, 1, 10))

\* A valid event was enriched when the clock's date was not the event's.
C10_Witness ==
    /\ cur \in ValidObjects
    /\ pc = "fanout"
    /\ enrichedAt > 0
    /\ DateIsoFormat(ClockValues[enrichedAt]) # SubSeq(CurTimestampText, 1, 10)

\* C11: an order event with no order_date, and an inventory or user_activity
\* event with no timestamp, is enriched, and its event_date is the date of
\* the one clock reading that processed_timestamp prints.
C11_FallbackDateIsSameReading ==
    (cur \in NoTimestampObjects /\ Enriched) =>
        /\ pc = "fanout"
        /\ Get(edata, "processed_timestamp")
              = Str(IsoFormat(ClockValues[enrichedAt]) \o <<"Z">>)
        /\ Get(edata, "event_date") = Str(DateIsoFormat(ClockValues[enrichedAt]))
        /\ Get(edata, "event_date").v
              = SubSeq(Get(edata, "processed_timestamp").v, 1, 10)

\* An order event without order_date was enriched at the last reading
\* before midnight.
C11_Witness ==
    /\ cur \in NoTimestampObjects
    /\ "order_date" \notin DOMAIN cur.body
    /\ CurEventType = Str(S_order)
    /\ pc = "fanout"
    /\ enrichedAt = 1

\* the path of the specification's example
ExamplePath ==
    <<"o", "u", "t", "p", "u", "t", "/", "i", "n", "v", "e", "n", "t",
      "o", "r", "y", "/", "2", "0", "2", "4", "/", "0", "3", "/", "0",
      "5", "/", "1", "4", "/", "0", "7", "/", "i", "n", "v", "e", "n",
      "t", "o", "r", "y", "_", "2", "0", "2", "4", "0", "3", "0", "5",
      "1", "4", "0", "7", "2", "2", "4", "5", "1", ".", "j", "s", "o",
      "n">>

\* The specification's pattern
\* output/<c>/<YYYY>/<MM>/<DD>/<HH>/<mm>/<c>_<YYYYMMDDHHmm><SS><mmm>.json read
\* off the timestamp text t for the category text c: the fields as they
\* are written in t, the milliseconds being the fraction's first three
\* digits (000 without a fraction).
PatternPath(c, t) ==
    LET mmm == IF Len(t) >= 23 /\ t[20] = "." THEN SubSeq(t, 21, 23)
               ELSE <<"0", "0", "0">>
        prefix == SubSeq(t, 1, 4) \o SubSeq(t, 6, 7) \o SubSeq(t, 9, 10)
                      \o SubSeq(t, 12, 13) \o SubSeq(t, 15, 16)
        folder == S_output \o <<"/">> \o c \o <<"/">> \o SubSeq(t, 1, 4)
                      \o <<"/">> \o SubSeq(t, 6, 7) \o <<"/">> \o SubSeq(t, 9, 10)
                      \o <<"/">> \o SubSeq(t, 12, 13) \o <<"/">>
                      \o SubSeq(t, 15, 16)
    IN  folder \o <<"/">> \o c \o <<"_">> \o prefix \o SubSeq(t, 18, 19) \o mmm
            \o S_json

\* C12: for an event of one of the three categories with its own timestamp,
\* FormatForGCS yields the path of the pattern, made of the timestamp's own
\* zero-padded fields with the microseconds truncated to milliseconds, so
\* that the folder's fields are the filename's prefix; the example of the
\* specification gets the path the specification gives for it.
C12_PathFromOwnTimestamp ==
    /\ (cur \in ValidObjects \cup EarlyYearObjects /\ "FormatForGCS" \in done) =>
          /\ Len(gcsOut) = 1
          /\ gcsOut[1].file_path = PatternPath(PyStr(etype), CurTimestampText)
    /\ (cur = Object(InventoryPayload(Str(TsMillis))) /\ "FormatForGCS" \in done)
          => gcsOut[1].file_path = ExamplePath

\* The part of C12 that holds: the same for the timestamps of a year from
\* 1000 on, among them the specification's example.
C12_PathForFourDigitYears ==
    /\ (cur \in ValidObjects /\ "FormatForGCS" \in done) =>
          /\ Len(gcsOut) = 1
          /\ gcsOut[1].file_path = PatternPath(PyStr(etype), CurTimestampText)
    /\ (cur = Object(InventoryPayload(Str(TsMillis))) /\ "FormatForGCS" \in done)
          => gcsOut[1].file_path = ExamplePath

\* A timestamp with microseconds has been formatted: the path carries its
\* first three fraction digits.
C12_PathForFourDigitYearsWitness ==
    /\ cur = Object(OrderPayload(Str(TsMicros)))
    /\ "FormatForGCS" \in done
    /\ Len(gcsOut) = 1

\* C13: the path FormatForGCS yields depends on the event's category and
\* own timestamp and never on the clock: every execution of it on the same
\* enriched event yields the same path.
C13_PathIndependentOfClock ==
    \A i, j \in DOMAIN gcsOut : gcsOut[i].file_path = gcsOut[j].file_path

\* The part of C13 that holds: the same for the events of the three
\* categories that carry their own timestamp.
C13_OwnTimestampPathIsStable ==
    (/\ etype \in {Str(S_order), Str(S_inventory), Str(S_user_activity)}
     /\ Truthy(Get(edata, DesignatedField(etype)))) =>
        \A i, j \in DOMAIN gcsOut : gcsOut[i].file_path = gcsOut[j].file_path

\* An event with its own timestamp was formatted twice, the second time
\* after the clock had moved on.
C13_OwnTimestampPathIsStableWitness ==
    /\ cur \in ValidObjects
    /\ Len(gcsOut) = 2
    /\ clock > enrichedAt

\* C14: the enriched event is not changed after EventProcessor has yielded
\* it: in whatever order the two formatting steps run, the JSON content
\* FormatForGCS yields is the event as the enricher yielded it, without the
\* key _table_name (for a message that brings no such key itself).
C14_EnrichedEventImmutable ==
    "_table_name" \notin DOMAIN cur.body =>
        \A i \in DOMAIN gcsOut :
            /\ "_table_name" \notin DOMAIN gcsOut[i].json_content.json
            /\ gcsOut[i].json_content.json
                  = EventProcessorProcess(cur, ClockValues[enrichedAt],
                                          isoParser).out[1].event_data

\* C15: no row handed to a warehouse write has the key _table_name: the
\* dict FormatForBigQuery yields has it, and the row built from it is that
\* dict without it.
C15_NoRoutingKeyInRows ==
    /\ bqYield => "_table_name" \in DOMAIN edata
    /\ \A i \in DOMAIN bqWrites :
          /\ "_table_name" \notin DOMAIN bqWrites[i].row
          /\ \A k \in DOMAIN edata \ {"_table_name"} :
                /\ k \in DOMAIN bqWrites[i].row
                /\ bqWrites[i].row[k] = edata[k]

\* A row has been handed to a write while the yielded dict has the key.
C15_Witness ==
    /\ Len(bqWrites) = 1
    /\ "_table_name" \in DOMAIN edata
    /\ bqWrites[1].result = "appended"

\* the top-level field names of the schema of table t
SchemaFields(t) == {GetTableSchema(t)[i] : i \in DOMAIN GetTableSchema(t)}

\* C16: for a payload with exactly the input fields of its category, the
\* row handed to the warehouse write has exactly the top-level fields of
\* the category's table schema as its keys: the input fields,
\* processed_timestamp and event_date.
C16_RowKeysAreSchemaFields ==
    /\ cur \in ValidObjects =>
          \A i \in DOMAIN bqWrites :
              /\ DOMAIN bqWrites[i].row = SchemaFields(bqWrites[i].table)
              /\ DOMAIN bqWrites[i].row
                    = DOMAIN cur.body \cup {"processed_timestamp", "event_date"}
    /\ (cur \in ValidObjects /\ Handled) => Len(bqWrites) = 1

\* A row of each of the three tables has been handed to its write.
C16_Witness ==
    /\ cur \in ValidObjects
    /\ Len(bqWrites) = 1
    /\ bqWrites[1].table = S_user_activity
    /\ Cardinality(DOMAIN bqWrites[1].row) = 9

\* C17: an enriched event of a recognized category is handed to exactly one
\* warehouse write, the write of the table its category maps to, once: no
\* write of another table gets it.
C17_ExactlyOneWrite ==
    /\ Len(bqWrites) <= 1
    /\ \A i \in DOMAIN bqWrites :
          /\ etype = Str(S_order) => bqWrites[i].table = S_orders
          /\ etype = Str(S_inventory) => bqWrites[i].table = S_inventory
          /\ etype = Str(S_user_activity) => bqWrites[i].table = S_user_activity
    /\ (/\ etype \in {Str(S_order), Str(S_inventory), Str(S_user_activity)}
        /\ pc = "fanout" /\ FanoutOver) => Len(bqWrites) = 1

\* An order event whose source named another table in _table_name has been
\* through all three branches and went to the write of orders alone.
C17_Witness ==
    /\ cur \in SuppliedTableNameObjects
    /\ filtered = TableNames
    /\ Len(bqWrites) = 1 /\ bqWrites[1].table = S_orders

\* the event_type values of the messages, the three categories among them
EventTypes ==
    {Get(m.body, "event_type") : m \in {x \in RawMessages : x.kind = "object"}}

\* the names a table may be asked for under
CandidateTableNames == TableNames \cup {S_order, S_refund, <<>>}

\* C18: the table names the schema catalog has an entry for are exactly the
\* names FormatForBigQuery's mapping produces, and the table manager's
\* mapping gives every event_type what FormatForBigQuery's gives it
\* (order -> orders, inventory -> inventory, user_activity ->
\* user_activity): no call of the table manager fails for want of a schema
\* and every table the job writes to has one.
C18_CatalogAndRouterAgree ==
    /\ {t \in CandidateTableNames : GetTableSchema(t) # <<>>}
          = {TableMapping(e).v : e \in {x \in EventTypes : Truthy(TableMapping(x))}}
    /\ \A e \in EventTypes : ProvisionerTableMapping(e) = TableMapping(e)
    /\ TableMapping(Str(S_order)) = Str(S_orders)
    /\ TableMapping(Str(S_inventory)) = Str(S_inventory)
    /\ TableMapping(Str(S_user_activity)) = Str(S_user_activity)
    /\ \A c \in Callers :
          /\ callers[c].table # <<>> => GetTableSchema(callers[c].table) # <<>>
          /\ callers[c].answer # "ValueError"
    /\ \A i \in DOMAIN bqWrites : GetTableSchema(bqWrites[i].table) # <<>>

\* The table manager created a table from the catalog's schema and the job
\* appended a row to it.
C18_Witness ==
    \E c \in Callers, i \in DOMAIN bqWrites :
        /\ callers[c].answer = "created" /\ callers[c].pc = "returned"
        /\ bqWrites[i].table = callers[c].table
        /\ bqWrites[i].result = "appended"

\* C19: in every step of the table manager and of the streaming job, a
\* table that exists stays as it is: it is neither dropped nor created
\* anew.
C19_TablesMonotonic ==
    [][\A t \in TableNames : tables[t] > 0 => tables'[t] = tables[t]]_vars

\* With the table there, a call of the table manager found it and the job
\* appended a row to it.
C19_Witness ==
    \E c \in Callers, i \in DOMAIN bqWrites :
        /\ callers[c].sawExists /\ callers[c].pc = "returned"
        /\ bqWrites[i].table = callers[c].table
        /\ bqWrites[i].result = "appended"
        /\ tables[callers[c].table] = 1

\* C21: every Table the table manager hands to create_table is partitioned
\* by day on event_date, clustered on the keys of its category (orders:
\* customer_id, status; inventory: product_id, warehouse_id; user_activity:
\* user_id, activity_type) and labelled with environment, managed_by and
\* table_type; event_date is a field of every schema of the catalog.
C21_PartitionedClusteredLabelled ==
    /\ \A t \in TableNames : "event_date" \in SchemaFields(t)
    /\ \A c \in Callers :
          callers[c].createIssued =>
              LET r == callers[c].request
                  t == callers[c].table
              IN  /\ r.time_partitioning = <<[type |-> "DAY", field |-> "event_date"]>>
                  /\ t = S_orders => r.clustering_fields = <<"customer_id", "status">>
                  /\ t = S_inventory
                        => r.clustering_fields = <<"product_id", "warehouse_id">>
                  /\ t = S_user_activity
                        => r.clustering_fields = <<"user_id", "activity_type">>
                  /\ \A i \in DOMAIN r.clustering_fields :
                        r.clustering_fields[i] \in SchemaFields(t)
                  /\ Len(r.labels) = 1
                  /\ DOMAIN r.labels[1] = {"environment", "managed_by", "table_type"}
                  /\ r.labels[1].environment \in Environments
                  /\ r.labels[1].managed_by = "cloud_function"
                  /\ r.labels[1].table_type = t

\* The table of user_activity has been created.
C21_Witness ==
    \E c \in Callers :
        /\ callers[c].answer = "created"
        /\ callers[c].table = S_user_activity
        /\ tables[S_user_activity] = 1

\* the category of the event the i-th yielded record was made of
PathCategory(i) == Get(gcsOut[i].json_content.json, "event_type")

\* the timestamp text of the event the i-th yielded record was made of
PathTimestamp(i) ==
    Get(gcsOut[i].json_content.json, DesignatedField(PathCategory(i))).v

\* a timestamp text truncated to the millisecond: its date and time to the
\* second and the first three digits of its fraction (000 without one)
WallMillis(t) ==
    SubSeq(t, 1, 19) \o (IF t[20] = "." THEN SubSeq(t, 21, 23)
                                       ELSE <<"0", "0", "0">>)

\* the UTC offset a timestamp text ends with, Z being +00:00
UtcOffset(t) ==
    IF t[Len(t)] = "Z" THEN <<"+", "0", "0", ":", "0", "0">>
    ELSE SubSeq(t, Len(t) - 5, Len(t))

\* C22: two events share a path exactly when they have the same category
\* and the same timestamp truncated to the millisecond: events of different
\* categories, and events whose timestamps differ in the millisecond or
\* above, get different paths.
C22_PathInjective ==
    Len(gcsOut) = 2 =>
        ((gcsOut[1].file_path = gcsOut[2].file_path)
            <=> /\ PathCategory(1) = PathCategory(2)
                /\ WallMillis(PathTimestamp(1)) = WallMillis(PathTimestamp(2))
                /\ UtcOffset(PathTimestamp(1)) = UtcOffset(PathTimestamp(2)))

\* The part of C22 that holds: the same with the timestamps' UTC offsets
\* left out of the comparison.
C22_PathInjectiveOnWallClock ==
    Len(gcsOut) = 2 =>
        ((gcsOut[1].file_path = gcsOut[2].file_path)
            <=> /\ PathCategory(1) = PathCategory(2)
                /\ WallMillis(PathTimestamp(1)) = WallMillis(PathTimestamp(2)))

\* Two events of one category in the same second, a millisecond apart, got
\* two paths.
C22_PathInjectiveOnWallClockWitness ==
    /\ Len(gcsOut) = 2
    /\ PathCategory(1) = PathCategory(2)
    /\ PathTimestamp(1) = TsMillis /\ PathTimestamp(2) = TsNextMilli
    /\ gcsOut[1].file_path # gcsOut[2].file_path

\* the call of caller c is for a JSON object whose event_type is missing,
\* false or none of the three categories
CallHasNoKnownCategory(c) ==
    /\ callers[c].kind = "object"
    /\ callers[c].event_type
          \notin {Str(S_order), Str(S_inventory), Str(S_user_activity)}

\* the call of caller c has asked the warehouse nothing
CallAskedNothing(c) ==
    /\ callers[c].table = <<>>
    /\ callers[c].answer = "none"
    /\ ~callers[c].sawExists
    /\ ~callers[c].createIssued
    /\ callers[c].request = NoTable

C24_SchemaForThreeNamesOnly ==
    /\ [](\A c \in Callers :
            callers[c].pc # "idle" =>
                /\ callers[c].table = S_orders =>
                      callers[c].pc = "returned" /\ callers[c].schema = OrdersSchema
                /\ callers[c].table = S_inventory =>
                      callers[c].pc = "returned" /\ callers[c].schema = InventorySchema
                /\ callers[c].table = S_user_activity =>
                      callers[c].pc = "returned"
                        /\ callers[c].schema = UserActivitySchema
                /\ callers[c].table \notin {S_orders, S_inventory, S_user_activity} =>
                      callers[c].pc = "raised" /\ callers[c].exc = "ValueError"
                        /\ callers[c].schema = <<>>)
    /\ [][UNCHANGED <<tables, env, flowVars, gen, generation_tasks>>]_vars

\* One lookup has returned the schema of user_activity, another has failed
\* for the singular "order".
C24_Witness ==
    \E c, d \in Callers :
        /\ callers[c].pc = "returned" /\ callers[c].table = S_user_activity
        /\ callers[c].schema = UserActivitySchema
        /\ callers[d].pc = "raised" /\ callers[d].table = S_order

\* the payload in flight parses and carries a category
CurHasCategory == cur.kind = "object" /\ Truthy(CurEventType)

\* EventProcessor has yielded an enriched event for the message in flight
EnricherYielded == Enriched /\ pc # "done" /\ etype = CurEventType

\* the designated timestamp of the message in flight is there and
\* fromisoformat cannot read it
CurTimestampUnreadable ==
    /\ DesignatedField(CurEventType) # ""
    /\ Truthy(Get(cur.body, DesignatedField(CurEventType)))
    /\ ~IsParsed(ParseTimestamp(Get(cur.body, DesignatedField(CurEventType)),
                                isoParser))

\* C25 as the specification states it: every payload that parses and
\* carries a category yields an enriched event, whatever its other fields
\* are, a designated timestamp that is no ISO-8601 text included.
C25_Original == (CurHasCategory /\ Enriched) => EnricherYielded

\* C25, amended: every payload that parses and carries a category yields an
\* enriched event whatever the shape of its other fields, and also without
\* its designated timestamp; a designated timestamp that is there and that
\* fromisoformat cannot read makes the enricher yield nothing for the
\* message, and nothing reaches either sink.
C25_OnlyTimestampIsValidated ==
    /\ (CurHasCategory /\ Enriched) => (EnricherYielded <=> ~CurTimestampUnreadable)
    /\ (cur \in OddShapeObjects \cup NoTimestampObjects \cup UnknownCategoryObjects
            /\ Enriched) => EnricherYielded
    /\ (cur \in BadTimestampObjects /\ Enriched) =>
          /\ pc = "done" /\ etype = None
          /\ done = {} /\ bqWrites = <<>> /\ gcsOut = <<>>

\* A payload with a field of another type and one more field than its
\* category has was enriched and went to both sinks.
C25_Witness ==
    /\ cur \in OddShapeObjects
    /\ "extra" \in DOMAIN cur.body
    /\ pc = "fanout" /\ FanoutOver
    /\ Len(bqWrites) = 1 /\ Len(gcsOut) = 1

\* EventProcessor has just yielded: no later step has touched the event
JustEnriched == pc = "fanout" /\ "FormatForBigQuery" \notin done

\* C26: the event EventProcessor yields has the fields of the payload and
\* the two fields processed_timestamp and event_date; every other field
\* has the value the payload gave it, and the two are the clock reading of
\* the enrichment and the date the enricher derived, also where the source
\* supplied fields of these names.
C26_PassThroughCopy ==
    JustEnriched =>
        /\ DOMAIN edata = DOMAIN cur.body \cup {"processed_timestamp", "event_date"}
        /\ \A k \in DOMAIN cur.body \ {"processed_timestamp", "event_date"} :
              edata[k] = cur.body[k]
        /\ edata["processed_timestamp"]
              = Str(IsoFormat(ClockValues[enrichedAt]) \o <<"Z">>)
        /\ edata["event_date"]
              = Str(DateIsoFormat(EventDateSource(etype, cur.body,
                                                  ClockValues[enrichedAt], isoParser)))
        /\ cur \in SuppliedFieldsObjects =>
              /\ edata["event_date"] = Str(SubSeq(CurTimestampText, 1, 10))
              /\ edata["event_date"] # cur.body["event_date"]
              /\ edata["processed_timestamp"] # cur.body["processed_timestamp"]

\* An event whose source supplied both fields has been enriched.
C26_Witness ==
    /\ cur \in SuppliedFieldsObjects
    /\ JustEnriched
    /\ enrichedAt = 2
    /\ edata["event_date"] # cur.body["event_date"]

\* the year, month and day of the folder of the i-th yielded record, written
\* as a date
FolderDate(i) ==
    LET p == gcsOut[i].file_path
        n == Len(S_output) + Len(PyStr(PathCategory(i))) + 2
    IN  SubSeq(p, n + 1, n + 4) \o <<"-">> \o SubSeq(p, n + 6, n + 7)
            \o <<"-">> \o SubSeq(p, n + 9, n + 10)

\* C27: the year, month and day of the folder FormatForGCS yields for an
\* enriched event are the event's event_date, whatever the clock reads when
\* the event is formatted, also for an event without its designated
\* timestamp and for an event of an unrecognized category.
C27_FolderDateIsEventDate ==
    \A i \in DOMAIN gcsOut :
        Str(FolderDate(i)) = Get(gcsOut[i].json_content.json, "event_date")

\* The part of C27 that holds: the same for the events of the three
\* categories that carry their own timestamp.
C27_OwnTimestampFolderIsEventDate ==
    (/\ etype \in {Str(S_order), Str(S_inventory), Str(S_user_activity)}
     /\ Truthy(Get(edata, DesignatedField(etype)))) =>
        \A i \in DOMAIN gcsOut :
            Str(FolderDate(i)) = Get(gcsOut[i].json_content.json, "event_date")

\* An event with its own timestamp, of a day that is not the clock's, was
\* formatted after the clock had passed midnight.
C27_OwnTimestampFolderIsEventDateWitness ==
    /\ cur \in ValidObjects
    /\ Len(gcsOut) = 1
    /\ enrichedAt = 1 /\ clock = 2

\* C28: for every request that has the ce-specversion header,
\* handle_pubsub_message answers with a status of the 200s, whatever went
\* wrong with the envelope, the base64 data, the JSON or the provisioning.
C28_AlwaysAcknowledged ==
    \A c \in Callers :
        (callers[c].pc = "answered" /\ callers[c].kind # "no_header") =>
            callers[c].status \in 200..299

\* The part of C28 that holds: the same for every request but those whose
\* body or whose message text is no JSON.
C28_AcknowledgedUnlessNotJson ==
    \A c \in Callers :
        (callers[c].pc = "answered"
           /\ callers[c].kind \notin {"no_header", "body_not_json", "invalid_json"})
            => callers[c].status = 200

\* A request whose creation of the table failed in the warehouse and a
\* request with an invalid envelope have both been answered.
C28_AcknowledgedUnlessNotJsonWitness ==
    \E c, d \in Callers :
        /\ callers[c].pc = "answered" /\ callers[c].exc = "GoogleAPIError"
        /\ callers[c].createIssued
        /\ callers[d].pc = "answered" /\ callers[d].kind = "invalid_envelope"

\* C29: where the table manager has its client and its project id, so that
\* it issues creates at all: with messages of a category kept being
\* delivered to it and a warehouse that accepts a create in the end, the
\* table of the category exists from some point on for ever, and every
\* append for a table that exists finds it; a create the warehouse refused
\* has changed nothing in the catalog.
C29_ProvisionerWinsInTheEnd ==
    /\ env = "ok" => \A t \in TableNames : <>[](tables[t] > 0)
    /\ [][\A t \in TableNames :
            (/\ tables[t] > 0
             /\ bqWrites' # bqWrites
             /\ bqWrites'[Len(bqWrites')].table = t)
                => bqWrites'[Len(bqWrites')].result = "appended"]_vars
    /\ [][(callers'[1].answer = "GoogleAPIError" /\ callers'[1] # callers[1])
            => tables' = tables]_vars

\* The warehouse has refused the create of orders; the table inventory is
\* there and an append has found it.
C29_Witness ==
    /\ callers[1].answer = "GoogleAPIError"
    /\ callers[1].createIssued
    /\ callers[1].table = S_orders
    /\ tables[S_orders] = 0
    /\ tables[S_inventory] = 1
    /\ \E i \in DOMAIN bqWrites :
          bqWrites[i].table = S_inventory /\ bqWrites[i].result = "appended"

\* a message of one of the three categories, with the fields of its
\* category and a designated timestamp every fromisoformat reads
WellFormedEvent(m) ==
    /\ m.kind = "object"
    /\ Get(m.body, "event_type")
          \in {Str(S_order), Str(S_inventory), Str(S_user_activity)}
    /\ DesignatedField(Get(m.body, "event_type")) \in DOMAIN m.body
    /\ \A parser \in {"strict", "lenient"} :
          IsParsed(ParseTimestamp(m.body[DesignatedField(Get(m.body, "event_type"))],
                                  parser))
    /\ Get(m.body, "event_type") = Str(S_order) => DOMAIN m.body = OrderFields
    /\ Get(m.body, "event_type") = Str(S_inventory) => DOMAIN m.body = InventoryFields
    /\ Get(m.body, "event_type") = Str(S_user_activity) =>
          DOMAIN m.body = UserActivityFields

\* the generator was last asked for an event of none of the three types
UnknownTypeRequested(g) ==
    /\ g.requested # <<>>
    /\ g.requested[1] \notin {Str(S_order), Str(S_inventory), Str(S_user_activity)}

\* C30: every message the generator publishes is an event of the type
\* asked for, one of order, inventory and user_activity, with its
\* designated timestamp; asked for any other type, generate_event raises
\* and nothing is published, in the single, the batch and the continuous
\* path.
C30_GeneratorPublishesWellFormed ==
    /\ [](/\ gen.last # NoMsg => WellFormedEvent(gen.last)
          /\ gen.published =>
                /\ gen.last # NoMsg
                /\ Get(gen.last.body, "event_type") = gen.requested[1]
          /\ UnknownTypeRequested(gen) =>
                /\ gen.exc \in {"ValueError", "TypeError"}
                /\ ~gen.published)
    /\ [][(UnknownTypeRequested(gen') /\ gen'.path # "idle")
            => gen'.last = gen.last]_vars

\* A continuous task has published an event and then was refused the type
\* refund.
C30_Witness ==
    /\ gen.path = "continuous"
    /\ gen.event_count = 1
    /\ gen.last # NoMsg
    /\ gen.requested = <<Str(S_refund)>>
    /\ gen.exc = "ValueError"

\* a stop request has taken the entry of the task out of the registry
Removed(id) == generation_tasks[id] = "removed"

\* the background task of the generator has been scheduled and is not over
TaskAlive == gen.path \in {"scheduled", "continuous"}

\* C31: once a stop request has removed the entry of task T, the entry is
\* never there again and no status is written for it; the background task
\* of T publishes no further event (the claim allows one) and ends; every
\* status query for T from then on is answered 404.
C31_StopSignalsTask ==
    /\ [][\A id \in TaskIds : Removed(id) => Removed(id)']_vars
    /\ [][(TaskAlive /\ Removed(gen.task_id)) =>
            /\ gen'.last = gen.last
            /\ gen'.event_count = gen.event_count
            /\ gen.path = "continuous" => gen'.path \in {"continuous", "done"}]_vars
    /\ [][(/\ gen'.query # gen.query
           /\ Len(gen'.query) = 3
           /\ gen'.query[1] = "status"
           /\ Removed(gen'.query[2])) => gen'.query[3] = 404]_vars
    /\ \A id \in TaskIds :
          (TaskAlive /\ gen.task_id = id /\ Removed(id)) ~> ~TaskAlive

\* Task 1 had published an event when it was stopped; it has ended since
\* and a status query for it was answered 404.
C31_Witness ==
    /\ Removed(1)
    /\ gen.task_id = 1
    /\ gen.path = "done"
    /\ gen.event_count = 1
    /\ gen.last # NoMsg
    /\ gen.query = <<"status", 1, 404>>

\* C32: every continuous task that was started leaves the status running
\* in the end, whatever its configuration: its entry is completed or
\* failed, or a stop request has removed it.
C32_TaskLeavesRunning ==
    \A id \in TaskIds :
        (generation_tasks[id] = "running") ~> (generation_tasks[id] # "running")

\* The part of C32 that holds: the same for a task whose configuration has
\* an event type and an events_per_minute that is not 0.
C32_TaskLeavesRunningUnlessDivisionByZero ==
    \A id \in TaskIds :
        (/\ generation_tasks[id] = "running"
         /\ gen.task_id = id
         /\ Len(gen.event_types) > 0
         /\ gen.events_per_minute # 0) ~> (generation_tasks[id] # "running")

\* A task with two event types has run to its end: its entry is completed.
C32_TaskLeavesRunningUnlessDivisionByZeroWitness ==
    /\ gen.task_id = 1
    /\ gen.path = "done"
    /\ gen.event_count = MaxEvents
    /\ generation_tasks[1] = "completed"

\* the request for a scenario was taken and the name is in gen.scenario_name
ScenarioRequested(scenario_name) == gen.scenario_name = <<scenario_name>>

\* get_scenario returned a configuration whose events_per_minute times
\* duration_minutes is the total_events listed under the name
ScenarioStartedAsListed(scenario_name) ==
    /\ Len(gen.config) = 1
    /\ gen.exc # "ValueError"
    /\ gen.status # 400
    /\ gen.config[1].events_per_minute * gen.config[1].duration_minutes
          = GetAllScenarios[scenario_name].total_events

\* C33: every scenario name that get_all_scenarios lists can be started:
\* get_scenario returns a configuration, without the error of an unknown
\* scenario, whose events_per_minute times duration_minutes equals the
\* listed total_events.
C33_ListedScenariosStart ==
    \A scenario_name \in DOMAIN GetAllScenarios :
        ScenarioRequested(scenario_name) => ScenarioStartedAsListed(scenario_name)

\* What holds of C33: the names that get_scenario knows are all listed and
\* start with the listed total, and the total listed under every name is
\* the product of the numbers of the configuration listed beside it.
C33_KnownScenariosStart ==
    /\ \A scenario_name \in ScenarioNames :
          (GetScenario(scenario_name) # <<>> /\ ScenarioRequested(scenario_name))
             => /\ scenario_name \in DOMAIN GetAllScenarios
                /\ ScenarioStartedAsListed(scenario_name)
                /\ gen.config[1] = GetAllScenarios[scenario_name].config
                /\ gen.estimated_total_events
                      = GetAllScenarios[scenario_name].total_events
    /\ \A scenario_name \in DOMAIN GetAllScenarios :
          LET listed == GetAllScenarios[scenario_name]
          IN  listed.config.events_per_minute * listed.config.duration_minutes
                 = listed.total_events

C33_KnownScenariosStartWitness ==
    /\ ScenarioRequested("burst_test")
    /\ gen.path = "done"
    /\ gen.event_count = MaxEvents
    /\ generation_tasks[gen.task_id] = "completed"
    /\ gen.estimated_total_events = 900

\* a listed scenario was refused as unknown
C33_ListedScenarioRefused ==
    /\ ScenarioRequested("orders_only")
    /\ gen.status = 400
    /\ gen.exc = "ValueError"

=============================================================================
